---- MODULE Spec2Model ----
(***************************************************************************)
(* EquityWise: the Foreign-Assets valuation engine.                        *)
(*                                                                         *)
(* FACalculator (calculators/fa_calculator.py) keeps two date-indexed      *)
(* series, sbi_rates and stock_data, and answers holdings queries, year    *)
(* sweeps and declaration summaries over lists of vesting lots and         *)
(* disposals.  RSUCalculator (calculators/rsu_calculator.py) has its own   *)
(* 7-day exchange-rate lookup.                                             *)
(*                                                                         *)
(* Dates are proleptic Gregorian ordinals, as datetime.date orders and     *)
(* subtracts them.  Money is integral: every price, rate and quantity of   *)
(* the inputs is a whole number, so the float products of the code are     *)
(* exact.  A calendar-year string is its integer year (the canonical       *)
(* decimal string).  A disposal may lack its sale date (date_sold is        *)
(* Optional): comparing None with a date raises TypeError.                 *)
(***************************************************************************)
EXTENDS Integers, Sequences, FiniteSets, TLC

\* first_sweep is a history variable: the first result calculate_year_balances
\* returned, and whether other calls and a repeated call followed it
VARIABLES sbi_rates, stock_data, rsu_records, gl_records, ret, first_sweep

vars == <<sbi_rates, stock_data, rsu_records, gl_records, ret, first_sweep>>

\* Python's None for an Optional[float]; every real rate and price is > 0.
None == -1

\* A calendar_year string is modelled by the number its digits spell;
\* BadYearString stands for a string int() rejects with ValueError ("20x4")
BadYearString == 0

\* year = int(calendar_year) raises ValueError
int_raises(calendar_year) == calendar_year = BadYearString

\* ---------------------------------------------------------------------------
\* datetime.date
\* ---------------------------------------------------------------------------

IsLeap(y) == (y % 4 = 0) /\ ((y % 100 # 0) \/ (y % 400 = 0))

DaysInMonth(y, m) ==
  IF m = 2 THEN (IF IsLeap(y) THEN 29 ELSE 28)
  ELSE IF m \in {4, 6, 9, 11} THEN 30 ELSE 31

RECURSIVE DaysBeforeMonth(_, _)
DaysBeforeMonth(y, m) ==
  IF m = 1 THEN 0 ELSE DaysBeforeMonth(y, m - 1) + DaysInMonth(y, m - 1)

DaysBeforeYear(y) ==
  (y - 1) * 365 + ((y - 1) \div 4) - ((y - 1) \div 100) + ((y - 1) \div 400)

\* Date(year, month, day)
Date(y, m, d) == DaysBeforeYear(y) + DaysBeforeMonth(y, m) + d

\* date.year
YearOf(o) ==
  CHOOSE y \in ((o \div 366) .. ((o \div 365) + 1)) :
    DaysBeforeYear(y) < o /\ o <= DaysBeforeYear(y + 1)

\* date.month
MonthOf(o) ==
  LET y == YearOf(o)
  IN  CHOOSE m \in 1..12 :
        Date(y, m, 1) <= o /\ o < Date(y, m, 1) + DaysInMonth(y, m)

\* date.strftime("%Y-%m-%d"): the key of a balance entry
strftime(o) ==
  LET y == YearOf(o)
      m == MonthOf(o)
  IN  <<y, m, o - Date(y, m, 1) + 1>>

\* ---------------------------------------------------------------------------
\* Series lookups
\* ---------------------------------------------------------------------------

RateWindow == 15
PriceWindow == 10
RsuRateWindow == 7

SetMin(S) == CHOOSE x \in S : \A z \in S : x <= z
SetMax(S) == CHOOSE x \in S : \A z \in S : x >= z

\* The not-found result, logged "No exchange rate found" / "No stock price found"
NotFound == [value |-> None, log |-> "warning_not_found"]

\* for days_offset in range(1, W + 1): previous day first, then next day;
\* a hit is logged at debug level ("Using ... from <date> for <target>")
RECURSIVE NextFirstSearch(_, _, _, _)
NextFirstSearch(series, t, d, W) ==
  IF d > W THEN NotFound
  ELSE IF (t + d) \in DOMAIN series THEN [value |-> series[t + d], log |-> "debug_window"]
  ELSE IF (t - d) \in DOMAIN series THEN [value |-> series[t - d], log |-> "debug_window"]
  ELSE NextFirstSearch(series, t, d + 1, W)

RECURSIVE WindowSearch(_, _, _, _)
WindowSearch(series, t, d, W) ==
  IF d > W THEN NotFound
  ELSE IF (t - d) \in DOMAIN series THEN [value |-> series[t - d], log |-> "debug_window"]
  ELSE IF (t + d) \in DOMAIN series THEN [value |-> series[t + d], log |-> "debug_window"]
  ELSE WindowSearch(series, t, d + 1, W)

NoClamp(series, t) == NotFound

\* "Fallback: Use earliest or latest available if outside data range",
\* logged as a warning naming the fallback date
RangeFallback(series, t) ==
  IF DOMAIN series # {}
  THEN LET earliest_date == SetMin(DOMAIN series)
           latest_date == SetMax(DOMAIN series)
       IN  IF t < earliest_date
           THEN [value |-> series[earliest_date], log |-> "warning_fallback"]
           ELSE IF t > latest_date
           THEN [value |-> series[latest_date], log |-> "warning_fallback"]
           ELSE NotFound
  ELSE NotFound

\* FACalculator.get_date_specific_exchange_rate, with what it logs
get_date_specific_exchange_rate(rates, target_date) ==
  IF target_date \in DOMAIN rates
  THEN [value |-> rates[target_date], log |-> "exact"]
  ELSE LET w == WindowSearch(rates, target_date, 1, RateWindow)
       IN  IF w.value # None THEN w ELSE RangeFallback(rates, target_date)

\* FACalculator.get_date_specific_stock_price, with what it logs
get_date_specific_stock_price(prices, target_date) ==
  IF target_date \in DOMAIN prices
  THEN [value |-> prices[target_date], log |-> "exact"]
  ELSE LET w == WindowSearch(prices, target_date, 1, PriceWindow)
       IN  IF w.value # None THEN w ELSE RangeFallback(prices, target_date)

\* RSUCalculator.get_exchange_rate: exact date, then the 7-day window, then None
get_exchange_rate(rates, target_date) ==
  IF target_date \in DOMAIN rates
  THEN [value |-> rates[target_date], log |-> "exact"]
  ELSE WindowSearch(rates, target_date, 1, RsuRateWindow)

YearEndRateWindow == 15
YearEndPriceWindow == 9

\* FACalculator.get_year_end_exchange_rate: None for a year int() rejects, else
\* the rate of December 31, of the nearest date within 15 days, or the clamp
get_year_end_exchange_rate(rates, calendar_year) ==
  IF int_raises(calendar_year) THEN None
  ELSE LET year_end_date == Date(calendar_year, 12, 31)
           w == WindowSearch(rates, year_end_date, 1, YearEndRateWindow)
       IN  IF year_end_date \in DOMAIN rates THEN rates[year_end_date]
           ELSE IF w.value # None THEN w.value
           ELSE RangeFallback(rates, year_end_date).value

\* for days_offset in range(1, 10): previous days only
RECURSIVE PrevSearch(_, _, _, _)
PrevSearch(series, t, d, W) ==
  IF d > W THEN None
  ELSE IF (t - d) \in DOMAIN series THEN series[t - d]
  ELSE PrevSearch(series, t, d + 1, W)

\* FACalculator.get_year_end_stock_price
get_year_end_stock_price(prices, calendar_year) ==
  IF int_raises(calendar_year) THEN None
  ELSE LET year_end_date == Date(calendar_year, 12, 31)
           w == PrevSearch(prices, year_end_date, 1, YearEndPriceWindow)
       IN  IF year_end_date \in DOMAIN prices THEN prices[year_end_date]
           ELSE IF w # None THEN w
           ELSE RangeFallback(prices, year_end_date).value

\* ---------------------------------------------------------------------------
\* Holdings: FACalculator.process_rsu_equity_holdings
\* ---------------------------------------------------------------------------

RECURSIVE SumSeq(_)
SumSeq(s) == IF s = <<>> THEN 0 ELSE Head(s) + SumSeq(Tail(s))

Min2(a, b) == IF a <= b THEN a ELSE b
Max2(a, b) == IF a >= b THEN a ELSE b

\* relevant_vestings = [r for r in rsu_records if r.vesting_date <= as_of_date]
relevant_vestings(rsu, as_of_date) ==
  SelectSeq(rsu, LAMBDA r : r.vesting_date <= as_of_date)

SoldAnyDate(gl, as_of_date, grant_number) ==
  SumSeq([i \in 1..Len(gl) |->
            IF gl[i].grant_number # "" /\ gl[i].grant_number = grant_number
            THEN gl[i].quantity ELSE 0])

\* sold_shares_by_grant[...] += quantity, for date_sold <= as_of_date and a
\* truthy grant number; .get(grant_number, 0.0)
sold_shares_by_grant(gl, as_of_date, grant_number) ==
  SumSeq([i \in 1..Len(gl) |->
            IF /\ gl[i].date_sold <= as_of_date
               /\ gl[i].grant_number # ""
               /\ gl[i].grant_number = grant_number
            THEN gl[i].quantity ELSE 0])

\* the keys of grants_vestings, in insertion order
RECURSIVE GrantOrder(_)
GrantOrder(s) ==
  IF s = <<>> THEN <<>>
  ELSE LET front == GrantOrder(SubSeq(s, 1, Len(s) - 1))
           g == s[Len(s)].grant_number
       IN  IF \E i \in 1..Len(front) : front[i] = g THEN front ELSE Append(front, g)

\* grants_vestings[grant_number]
vesting_records(rsu, as_of_date, grant_number) ==
  SelectSeq(relevant_vestings(rsu, as_of_date), LAMBDA r : r.grant_number = grant_number)

RECURSIVE LatestFirst(_)
LatestFirst(s) ==
  IF s = <<>> THEN <<>>
  ELSE LET rest == LatestFirst(Tail(s))
           x == Head(s)
           k == Cardinality({i \in 1..Len(rest) : rest[i].vesting_date > x.vesting_date})
       IN  SubSeq(rest, 1, k) \o <<x>> \o SubSeq(rest, k + 1, Len(rest))

\* sorted(vesting_records, key=lambda x: x.vesting_date): ascending and stable
RECURSIVE sorted_vestings(_)
sorted_vestings(s) ==
  IF s = <<>> THEN <<>>
  ELSE LET rest == sorted_vestings(Tail(s))
           x == Head(s)
           k == Cardinality({i \in 1..Len(rest) : rest[i].vesting_date < x.vesting_date})
       IN  SubSeq(rest, 1, k) \o <<x>> \o SubSeq(rest, k + 1, Len(rest))

\* a walk that takes shares from lot i and stops
FirstLotOnly(lots, i, remaining_shares, total_cost_basis_usd) ==
  IF i > Len(lots) \/ remaining_shares <= 0
  THEN [total_cost_basis_usd |-> total_cost_basis_usd,
        remaining_shares |-> remaining_shares]
  ELSE LET shares_to_use == Min2(remaining_shares, lots[i].quantity)
       IN  [total_cost_basis_usd |-> total_cost_basis_usd + shares_to_use * lots[i].fmv_usd,
            remaining_shares |-> remaining_shares - shares_to_use]

\* the FIFO cost-basis loop over sorted_vestings, from lot i on
RECURSIVE FifoWalk(_, _, _, _)
FifoWalk(lots, i, remaining_shares, total_cost_basis_usd) ==
  IF i > Len(lots) \/ remaining_shares <= 0
  THEN [total_cost_basis_usd |-> total_cost_basis_usd,
        remaining_shares |-> remaining_shares]
  ELSE LET shares_to_use == Min2(remaining_shares, lots[i].quantity)
           cost_contribution == shares_to_use * lots[i].fmv_usd
       IN  FifoWalk(lots, i + 1, remaining_shares - shares_to_use,
                    total_cost_basis_usd + cost_contribution)

\* max(vesting_records, key=lambda x: x.vesting_date): the first maximal record
latest_vesting(recs) ==
  LET m == SetMax({recs[i].vesting_date : i \in 1..Len(recs)})
      i == SetMin({j \in 1..Len(recs) : recs[j].vesting_date = m})
  IN  recs[i]

\* a holding whose quantity is vested minus sold without the floor at 0
SignedHolding(rsu, gl, as_of_date, grant_number, rate, price) ==
  LET recs == vesting_records(rsu, as_of_date, grant_number)
      total_vested_shares == SumSeq([i \in 1..Len(recs) |-> recs[i].quantity])
      total_sold_shares == sold_shares_by_grant(gl, as_of_date, grant_number)
      current_holding == total_vested_shares - total_sold_shares
  IN  IF current_holding # 0
      THEN << [holding_date |-> as_of_date,
               quantity |-> current_holding,
               cost_basis_usd_per_share |-> [num |-> 0, den |-> current_holding],
               market_value_usd_per_share |-> price,
               cost_basis_usd_total |-> 0,
               market_value_usd_total |-> price * current_holding,
               cost_basis_inr_total |-> 0,
               market_value_inr_total |-> (price * current_holding) * rate,
               exchange_rate |-> rate,
               holding_type |-> "Vested",
               grant_number |-> grant_number,
               vest_date |-> latest_vesting(recs).vesting_date,
               calendar_year |-> YearOf(as_of_date)] >>
      ELSE <<>>

\* the EquityHolding of one grant, or <<>> when current_holding is 0
GrantHolding(rsu, gl, as_of_date, grant_number, rate, price) ==
  LET recs == vesting_records(rsu, as_of_date, grant_number)
      total_vested_shares == SumSeq([i \in 1..Len(recs) |-> recs[i].quantity])
      total_sold_shares == sold_shares_by_grant(gl, as_of_date, grant_number)
      current_holding == Max2(0, total_vested_shares - total_sold_shares)
      walk == FifoWalk(sorted_vestings(recs), 1, current_holding, 0)
  IN  IF current_holding > 0
      THEN << [holding_date |-> as_of_date,
               quantity |-> current_holding,
               cost_basis_usd_per_share |->
                 [num |-> walk.total_cost_basis_usd, den |-> current_holding],
               market_value_usd_per_share |-> price,
               cost_basis_usd_total |-> walk.total_cost_basis_usd,
               market_value_usd_total |-> price * current_holding,
               cost_basis_inr_total |-> walk.total_cost_basis_usd * rate,
               market_value_inr_total |-> (price * current_holding) * rate,
               exchange_rate |-> rate,
               holding_type |-> "Vested",
               grant_number |-> grant_number,
               vest_date |-> latest_vesting(recs).vesting_date,
               calendar_year |-> YearOf(as_of_date)] >>
      ELSE <<>>

RECURSIVE HoldingsOfGrants(_, _, _, _, _, _)
HoldingsOfGrants(grants, rsu, gl, as_of_date, rate, price) ==
  IF grants = <<>> THEN <<>>
  ELSE GrantHolding(rsu, gl, as_of_date, Head(grants), rate, price)
         \o HoldingsOfGrants(Tail(grants), rsu, gl, as_of_date, rate, price)

\* "gl_record.date_sold <= as_of_date" raises TypeError for a disposal without
\* a sale date; the loop is reached once the rate and the price are resolved
process_rsu_equity_holdings_raises(rates, prices, gl, as_of_date) ==
  LET year_end_exchange_rate == get_date_specific_exchange_rate(rates, as_of_date).value
      year_end_stock_price == get_date_specific_stock_price(prices, as_of_date).value
  IN  /\ year_end_exchange_rate # None /\ year_end_exchange_rate # 0
      /\ year_end_stock_price # None /\ year_end_stock_price # 0
      /\ \E i \in 1..Len(gl) : gl[i].date_sold = None

\* FACalculator.process_rsu_equity_holdings: [] when the rate or the price of the
\* as-of date is None (or 0), else one holding per grant with shares left
process_rsu_equity_holdings(rates, prices, rsu, gl, as_of_date) ==
  LET year_end_exchange_rate == get_date_specific_exchange_rate(rates, as_of_date).value
      year_end_stock_price == get_date_specific_stock_price(prices, as_of_date).value
  IN  IF year_end_exchange_rate = None \/ year_end_exchange_rate = 0 THEN <<>>
      ELSE IF year_end_stock_price = None \/ year_end_stock_price = 0 THEN <<>>
      ELSE HoldingsOfGrants(GrantOrder(relevant_vestings(rsu, as_of_date)),
                            rsu, gl, as_of_date,
                            year_end_exchange_rate, year_end_stock_price)

\* ---------------------------------------------------------------------------
\* Year sweep: FACalculator.calculate_year_balances
\* ---------------------------------------------------------------------------

\* the shares of one vest sold at any date
SoldOfVestAnyDate(gl, vest, year_start) ==
  SumSeq([i \in 1..Len(gl) |->
            IF /\ gl[i].grant_number = vest.grant_number
               /\ gl[i].date_acquired = vest.vesting_date
               /\ gl[i].date_sold # None
            THEN gl[i].quantity ELSE 0])

\* shares of one vest sold before the calendar year (grant and acquisition date)
shares_sold_before_year(gl, vest, year_start) ==
  SumSeq([i \in 1..Len(gl) |->
            IF /\ gl[i].grant_number = vest.grant_number
               /\ gl[i].date_acquired = vest.vesting_date
               /\ gl[i].date_sold # None
               /\ gl[i].date_sold < year_start
            THEN gl[i].quantity ELSE 0])

\* FACalculator.get_earliest_vesting_date_for_year
get_earliest_vesting_date_for_year(rsu, gl, year) ==
  LET year_start == Date(year, 1, 1)
      relevant_vest_dates ==
        { rsu[i].vesting_date : i \in
            { j \in 1..Len(rsu) :
                rsu[j].quantity - shares_sold_before_year(gl, rsu[j], year_start) > 0 } }
  IN  IF relevant_vest_dates = {} THEN year_start ELSE SetMin(relevant_vest_dates)

\* the last calendar day of a month: Dec 31, else the first of the next month - 1
month_end(year, month) ==
  IF month = 12 THEN Date(year, 12, 31) ELSE Date(year, month + 1, 1) - 1

monthly_dates(year) == [month \in 1..12 |-> month_end(year, month)]

\* the except branch of the sweep: the zero placeholder of a date
zero_entry(calc_date) ==
  [key |-> strftime(calc_date),
   date |-> calc_date,
   vested_value_inr |-> 0,
   total_value_usd |-> 0,
   exchange_rate |-> 0,
   stock_price |-> 0,
   holdings_count |-> 0]

\* the try block of the sweep: the balance entry of one date
computed_entry(rates, prices, rsu, gl, calc_date) ==
  LET holdings == process_rsu_equity_holdings(rates, prices, rsu, gl, calc_date)
  IN  [key |-> strftime(calc_date),
       date |-> calc_date,
       vested_value_inr |->
         SumSeq([i \in 1..Len(holdings) |->
                   IF holdings[i].holding_type = "Vested"
                   THEN holdings[i].market_value_inr_total ELSE 0]),
       total_value_usd |->
         SumSeq([i \in 1..Len(holdings) |-> holdings[i].market_value_usd_total]),
       exchange_rate |-> get_date_specific_exchange_rate(rates, calc_date).value,
       stock_price |-> get_date_specific_stock_price(prices, calc_date).value,
       holdings_count |-> Len(holdings)]

\* an entry computed without the except branch
UnguardedEntry(rates, prices, rsu, gl, calc_date) ==
  computed_entry(rates, prices, rsu, gl, calc_date)

\* the entry of one date: try ... except Exception
balance_entry(rates, prices, rsu, gl, calc_date) ==
  IF process_rsu_equity_holdings_raises(rates, prices, gl, calc_date)
  THEN zero_entry(calc_date)
  ELSE computed_entry(rates, prices, rsu, gl, calc_date)

\* balance_calculations[date_str] = ...: a dict keeps the position of a key it
\* already has and replaces its value
DictSet(d, entry) ==
  IF \E i \in 1..Len(d) : d[i].key = entry.key
  THEN [i \in 1..Len(d) |-> IF d[i].key = entry.key THEN entry ELSE d[i]]
  ELSE Append(d, entry)

RECURSIVE SweepDates(_, _, _, _, _, _)
SweepDates(rates, prices, rsu, gl, dates, d) ==
  IF dates = <<>> THEN d
  ELSE SweepDates(rates, prices, rsu, gl, Tail(dates),
                  DictSet(d, balance_entry(rates, prices, rsu, gl, Head(dates))))

\* FACalculator.calculate_year_balances: the entries in dict order
calculate_year_balances(rates, prices, rsu, gl, year) ==
  LET opening_date == get_earliest_vesting_date_for_year(rsu, gl, year)
  IN  SweepDates(rates, prices, rsu, gl, <<opening_date>> \o monthly_dates(year), <<>>)

\* key in balance_calculations / balance_calculations[key]
HasKey(d, key) == \E i \in 1..Len(d) : d[i].key = key
AtKey(d, key) == d[CHOOSE i \in 1..Len(d) : d[i].key = key]

\* ---------------------------------------------------------------------------
\* Share statistics: FACalculator.calculate_share_statistics
\* ---------------------------------------------------------------------------

\* "r.quantity and cl_start <= r.date_sold <= cl_end" raises TypeError for a
\* disposal with a quantity and no sale date
calculate_share_statistics_raises(gl) ==
  \E i \in 1..Len(gl) : gl[i].quantity # 0 /\ gl[i].date_sold = None

calculate_share_statistics(rsu, gl, year) ==
  LET cl_start == Date(year, 1, 1)
      cl_end == Date(year, 12, 31)
      total_vested_ever == SumSeq([i \in 1..Len(rsu) |-> rsu[i].quantity])
      total_sold_ever == SumSeq([i \in 1..Len(gl) |-> gl[i].quantity])
      total_sold_in_cl ==
        SumSeq([i \in 1..Len(gl) |->
                  IF cl_start <= gl[i].date_sold /\ gl[i].date_sold <= cl_end
                  THEN gl[i].quantity ELSE 0])
      vested_before_cl ==
        SumSeq([i \in 1..Len(rsu) |->
                  IF rsu[i].vesting_date < cl_start THEN rsu[i].quantity ELSE 0])
      sold_before_cl ==
        SumSeq([i \in 1..Len(gl) |->
                  IF gl[i].date_sold < cl_start THEN gl[i].quantity ELSE 0])
  IN  [total_vested_ever |-> total_vested_ever,
       total_sold_ever |-> total_sold_ever,
       total_sold_in_cl |-> total_sold_in_cl,
       opening_shares |-> Max2(0, vested_before_cl - sold_before_cl),
       current_holdings |-> Max2(0, total_vested_ever - total_sold_ever),
       vested_before_cl |-> vested_before_cl,
       sold_before_cl |-> sold_before_cl]

\* ---------------------------------------------------------------------------
\* Vest-wise details: FACalculator.calculate_vest_wise_details
\* ---------------------------------------------------------------------------

\* sold_shares_by_vest_current_year.get(vest_key, 0.0)
current_year_sales(gl, vest, year) ==
  SumSeq([i \in 1..Len(gl) |->
            IF /\ gl[i].grant_number = vest.grant_number
               /\ gl[i].date_acquired = vest.vesting_date
               /\ gl[i].date_sold # None
               /\ Date(year, 1, 1) <= gl[i].date_sold
               /\ gl[i].date_sold <= Date(year, 12, 31)
            THEN gl[i].quantity ELSE 0])

\* sales of the vest (grant and acquisition date) sold on or before year-end
sales_through_current_year(gl, vest, year) ==
  SumSeq([i \in 1..Len(gl) |->
            IF /\ gl[i].date_sold # None
               /\ gl[i].date_sold <= Date(year, 12, 31)
               /\ gl[i].grant_number = vest.grant_number
               /\ gl[i].date_acquired = vest.vesting_date
            THEN gl[i].quantity ELSE 0])

\* a filter that keeps only the vests with shares left at year-end
VestsWithSharesLeft(rsu, gl, year) ==
  SelectSeq(rsu, LAMBDA vest :
    /\ vest.vesting_date <= Date(year, 12, 31)
    /\ vest.quantity - sales_through_current_year(gl, vest, year) > 0)

relevant_vests(rsu, gl, year) ==
  SelectSeq(rsu, LAMBDA vest :
    /\ vest.vesting_date <= Date(year, 12, 31)
    /\ \/ vest.quantity - sales_through_current_year(gl, vest, year) > 0
       \/ current_year_sales(gl, vest, year) > 0)

\* a peak scan over all 12 month-ends of the year
ScanFromJanuary(vest, year) ==
  [k \in 1..12 |-> month_end(year, k)]

\* the month-ends the peak scan of a vest values: from start_month on, and only
\* dates on or after the vesting date
PeakScanDates(vest, year) ==
  LET start_month == IF YearOf(vest.vesting_date) = year
                     THEN MonthOf(vest.vesting_date) ELSE 1
  IN  SelectSeq([k \in 1..(13 - start_month) |-> month_end(year, start_month + k - 1)],
                LAMBDA calc_date : calc_date >= vest.vesting_date)

\* shares_at_date of the peak scan
shares_at_date(gl, vest, year, calc_date) ==
  IF current_year_sales(gl, vest, year) > 0
  THEN IF calc_date < Date(year, 12, 31)
       THEN vest.quantity
       ELSE Max2(0, vest.quantity - sales_through_current_year(gl, vest, year))
  ELSE vest.quantity

\* the peak scan: a strictly larger monthly value replaces the peak
RECURSIVE PeakScan(_, _, _, _, _, _, _)
PeakScan(rates, prices, gl, vest, year, dates, peak) ==
  IF dates = <<>> THEN peak
  ELSE LET calc_date == Head(dates)
           stock_price == get_date_specific_stock_price(prices, calc_date).value
           exchange_rate == get_date_specific_exchange_rate(rates, calc_date).value
           month_value_inr ==
             shares_at_date(gl, vest, year, calc_date) * stock_price * exchange_rate
       IN  PeakScan(rates, prices, gl, vest, year, Tail(dates),
                    IF month_value_inr > peak.peak_value_inr
                    THEN [peak_value_inr |-> month_value_inr,
                          peak_date |-> calc_date,
                          peak_stock_price |-> stock_price,
                          peak_exchange_rate |-> exchange_rate]
                    ELSE peak)

\* the disposals of the vest sold within the year (the gross-proceeds loop)
YearSalesOfVest(gl, vest, year) ==
  SelectSeq(gl, LAMBDA record :
    /\ record.date_sold # None
    /\ Date(year, 1, 1) <= record.date_sold
    /\ record.date_sold <= Date(year, 12, 31)
    /\ record.grant_number = vest.grant_number
    /\ record.date_acquired = vest.vesting_date)

\* a None price or rate is multiplied (TypeError) in the peak scan, the closing
\* value or the gross proceeds of the vest
VestRaises(rates, prices, gl, vest, year) ==
  LET dates == PeakScanDates(vest, year)
      sales == YearSalesOfVest(gl, vest, year)
  IN  \/ \E i \in 1..Len(dates) :
           \/ get_date_specific_stock_price(prices, dates[i]).value = None
           \/ get_date_specific_exchange_rate(rates, dates[i]).value = None
      \/ get_date_specific_stock_price(prices, Date(year, 12, 31)).value = None
      \/ get_date_specific_exchange_rate(rates, Date(year, 12, 31)).value = None
      \/ /\ current_year_sales(gl, vest, year) > 0
         /\ \E i \in 1..Len(sales) :
              get_date_specific_exchange_rate(rates, sales[i].date_sold).value = None

\* the VestWiseDetails of one relevant vest
vest_detail(rates, prices, gl, vest, year) ==
  LET year_end_date == Date(year, 12, 31)
      shares_sold_from_vest_current_year == current_year_sales(gl, vest, year)
      remaining_shares ==
        Max2(0, vest.quantity - sales_through_current_year(gl, vest, year))
      initial_value_usd == vest.quantity * vest.fmv_usd
      peak == PeakScan(rates, prices, gl, vest, year, PeakScanDates(vest, year),
                       [peak_value_inr |-> 0, peak_date |-> None,
                        peak_stock_price |-> 0, peak_exchange_rate |-> 0])
      closing_stock_price == get_date_specific_stock_price(prices, year_end_date).value
      closing_exchange_rate == get_date_specific_exchange_rate(rates, year_end_date).value
      sales == YearSalesOfVest(gl, vest, year)
  IN  [vest_date |-> vest.vesting_date,
       grant_number |-> vest.grant_number,
       initial_shares |-> vest.quantity,
       initial_value_usd |-> initial_value_usd,
       initial_value_inr |-> initial_value_usd * vest.forex_rate,
       initial_stock_price |-> vest.fmv_usd,
       initial_exchange_rate |-> vest.forex_rate,
       peak_value_inr |-> peak.peak_value_inr,
       peak_date |-> peak.peak_date,
       peak_stock_price |-> peak.peak_stock_price,
       peak_exchange_rate |-> peak.peak_exchange_rate,
       closing_shares |-> remaining_shares,
       closing_value_inr |-> remaining_shares * closing_stock_price * closing_exchange_rate,
       closing_stock_price |-> closing_stock_price,
       closing_exchange_rate |-> closing_exchange_rate,
       gross_income_received |-> 0,
       shares_sold |-> shares_sold_from_vest_current_year,
       gross_proceeds_inr |->
         IF shares_sold_from_vest_current_year > 0
         THEN SumSeq([i \in 1..Len(sales) |->
                        sales[i].quantity * sales[i].proceeds_per_share
                          * get_date_specific_exchange_rate(rates, sales[i].date_sold).value])
         ELSE 0,
       fully_sold |-> (remaining_shares = 0)]

\* vest_details.sort(key=lambda x: x.vest_date): ascending and stable
RECURSIVE SortDetails(_)
SortDetails(s) ==
  IF s = <<>> THEN <<>>
  ELSE LET rest == SortDetails(Tail(s))
           x == Head(s)
           k == Cardinality({i \in 1..Len(rest) : rest[i].vest_date < x.vest_date})
       IN  SubSeq(rest, 1, k) \o <<x>> \o SubSeq(rest, k + 1, Len(rest))

\* FACalculator.calculate_vest_wise_details: the exception is re-raised
calculate_vest_wise_details(rates, prices, rsu, gl, year) ==
  LET vests == relevant_vests(rsu, gl, year)
  IN  IF \/ int_raises(year)
         \/ \E i \in 1..Len(vests) : VestRaises(rates, prices, gl, vests[i], year)
      THEN [raised |-> TRUE, value |-> <<>>]
      ELSE [raised |-> FALSE,
            value |-> SortDetails([i \in 1..Len(vests) |->
                                     vest_detail(rates, prices, gl, vests[i], year)])]

\* ---------------------------------------------------------------------------
\* Declaration summary: FADeclarationSummary, FACalculator.calculate_fa_summary
\* ---------------------------------------------------------------------------

\* fa_declaration_threshold_inr: float = Field(default=200000.0)
fa_declaration_threshold_inr == 200000

\* FADeclarationSummary(declaration_date=..., calendar_year=calendar_year)
NewSummary(calendar_year) ==
  [calendar_year |-> calendar_year,
   total_vested_shares |-> 0, total_vested_ever |-> 0,
   total_sold_in_cl |-> 0, total_sold_ever |-> 0,
   vested_holdings_usd |-> 0, vested_holdings_inr |-> 0,
   opening_balance_inr |-> 0, closing_balance_inr |-> 0,
   peak_balance_inr |-> 0, peak_balance_date |-> None,
   opening_exchange_rate |-> 0, year_end_exchange_rate |-> 0, peak_exchange_rate |-> 0,
   opening_stock_price |-> 0, year_end_stock_price |-> 0, peak_stock_price |-> 0,
   opening_shares |-> 0, closing_shares |-> 0, peak_shares |-> 0,
   fa_declaration_threshold_inr |-> fa_declaration_threshold_inr,
   vest_wise_details |-> <<>>]

\* FADeclarationSummary.exceeds_declaration_threshold
exceeds_declaration_threshold(summary) ==
  summary.peak_balance_inr > summary.fa_declaration_threshold_inr

DeclarationOnClosing(summary) ==
  summary.closing_balance_inr >= summary.fa_declaration_threshold_inr

\* FADeclarationSummary.declaration_required
declaration_required(summary) ==
  summary.peak_balance_inr >= summary.fa_declaration_threshold_inr

\* "Extract opening balance (Jan 1)": the key "<calendar_year>-01-01"
opening_key(calendar_year) == <<calendar_year, 1, 1>>

\* "Extract closing balance": the entry under the key "<calendar_year>-12-31"
closing_key(calendar_year) == <<calendar_year, 12, 31>>

\* a peak loop that lets a later entry with an equal value replace the peak
RECURSIVE LastPeak(_, _, _)
LastPeak(balances, i, peak) ==
  IF i > Len(balances) THEN peak
  ELSE LET balance_data == balances[i]
       IN  LastPeak(balances, i + 1,
             IF balance_data.vested_value_inr >= peak.peak_value
             THEN [peak_value |-> balance_data.vested_value_inr,
                   peak_date |-> balance_data.date,
                   peak_rate |-> balance_data.exchange_rate,
                   peak_stock_price |-> balance_data.stock_price,
                   peak_shares |->
                     IF balance_data.stock_price > 0
                     THEN balance_data.total_value_usd \div balance_data.stock_price
                     ELSE peak.peak_shares]
             ELSE peak)

\* the peak loop over balance_calculations.items(): strict >, so the first
\* entry with the maximal value stays
RECURSIVE FindPeak(_, _, _)
FindPeak(balances, i, peak) ==
  IF i > Len(balances) THEN peak
  ELSE LET balance_data == balances[i]
       IN  FindPeak(balances, i + 1,
             IF balance_data.vested_value_inr > peak.peak_value
             THEN [peak_value |-> balance_data.vested_value_inr,
                   peak_date |-> balance_data.date,
                   peak_rate |-> balance_data.exchange_rate,
                   peak_stock_price |-> balance_data.stock_price,
                   peak_shares |->
                     IF balance_data.stock_price > 0
                     THEN balance_data.total_value_usd \div balance_data.stock_price
                     ELSE peak.peak_shares]
             ELSE peak)

\* the balance analysis, run when rsu_records and gl_records are both non-empty;
\* the share statistics may raise (int(calendar_year) or a missing sale date),
\* and comparing a None stock price with 0 raises TypeError
AnalysedSummary(summary, share_stats, opening_data, closing_data, has_opening, has_closing, peak, details) ==
  [summary EXCEPT
     !.total_vested_shares = share_stats.current_holdings,
     !.total_vested_ever = share_stats.total_vested_ever,
     !.total_sold_in_cl = share_stats.total_sold_in_cl,
     !.total_sold_ever = share_stats.total_sold_ever,
     !.opening_balance_inr =
       IF has_opening THEN opening_data.vested_value_inr ELSE @,
     !.opening_exchange_rate =
       IF has_opening THEN opening_data.exchange_rate ELSE @,
     !.opening_stock_price =
       IF has_opening THEN opening_data.stock_price ELSE @,
     !.opening_shares =
       IF has_opening /\ opening_data.stock_price > 0
       THEN opening_data.total_value_usd \div opening_data.stock_price ELSE @,
     !.closing_balance_inr =
       IF has_closing THEN closing_data.vested_value_inr ELSE @,
     !.year_end_exchange_rate =
       IF has_closing THEN closing_data.exchange_rate ELSE @,
     !.year_end_stock_price =
       IF has_closing THEN closing_data.stock_price ELSE @,
     !.closing_shares =
       IF has_closing /\ closing_data.stock_price > 0
       THEN closing_data.total_value_usd \div closing_data.stock_price ELSE @,
     !.peak_balance_inr = peak.peak_value,
     !.peak_balance_date = peak.peak_date,
     !.peak_exchange_rate = peak.peak_rate,
     !.peak_stock_price = peak.peak_stock_price,
     !.peak_shares = peak.peak_shares,
     !.vest_wise_details = details.value]

\* the analysis of one sweep result
AnalysisOf(summary, share_stats, balances, details, calendar_year, raises) ==
  LET okey == opening_key(calendar_year)
      ckey == closing_key(calendar_year)
      has_opening == HasKey(balances, okey)
      has_closing == HasKey(balances, ckey)
      opening_data == AtKey(balances, okey)
      closing_data == AtKey(balances, ckey)
  IN  IF \/ raises
         \/ (has_opening /\ opening_data.stock_price = None)
         \/ (has_closing /\ closing_data.stock_price = None)
         \/ details.raised
      THEN [raised |-> TRUE, summary |-> summary]
      ELSE [raised |-> FALSE,
            summary |->
              AnalysedSummary(summary, share_stats, opening_data, closing_data,
                              has_opening, has_closing,
                              FindPeak(balances, 1,
                                       [peak_value |-> 0, peak_date |-> None,
                                        peak_rate |-> 0, peak_stock_price |-> 0,
                                        peak_shares |-> 0]),
                              details)]

BalanceAnalysis(rates, prices, summary, rsu, gl, calendar_year) ==
  IF int_raises(calendar_year) THEN [raised |-> TRUE, summary |-> summary]
  ELSE AnalysisOf(summary,
                  calculate_share_statistics(rsu, gl, calendar_year),
                  calculate_year_balances(rates, prices, rsu, gl, calendar_year),
                  calculate_vest_wise_details(rates, prices, rsu, gl, calendar_year),
                  calendar_year,
                  calculate_share_statistics_raises(gl))

\* the loop over year_holdings: vested values are summed, and the first positive
\* holding rate fills a year_end_exchange_rate that is still 0.0
RECURSIVE AggregateHoldings(_, _)
AggregateHoldings(summary, year_holdings) ==
  IF year_holdings = <<>> THEN summary
  ELSE LET holding == Head(year_holdings)
           s1 == IF holding.holding_type = "Vested"
                 THEN [summary EXCEPT
                         !.vested_holdings_usd = @ + holding.market_value_usd_total,
                         !.vested_holdings_inr = @ + holding.market_value_inr_total]
                 ELSE summary
           s2 == IF holding.exchange_rate > 0 /\ s1.year_end_exchange_rate = 0
                 THEN [s1 EXCEPT !.year_end_exchange_rate = holding.exchange_rate]
                 ELSE s1
       IN  AggregateHoldings(s2, Tail(year_holdings))

\* "Set closing balance from year-end holdings if not calculated from balance
\* analysis": closing_balance_inr == 0.0 is replaced by vested_holdings_inr
ClosingFromHoldings(summary) ==
  IF summary.closing_balance_inr = 0
  THEN [summary EXCEPT !.closing_balance_inr = summary.vested_holdings_inr]
  ELSE summary

\* FACalculator.calculate_fa_summary; an absent (None) record list is the empty one
calculate_fa_summary(rates, prices, calendar_year, equity_holdings, rsu, gl) ==
  LET year_holdings == SelectSeq(equity_holdings,
                                 LAMBDA h : h.calendar_year = calendar_year)
      analysed == IF rsu # <<>> /\ gl # <<>>
                  THEN BalanceAnalysis(rates, prices, NewSummary(calendar_year),
                                       rsu, gl, calendar_year)
                  ELSE [raised |-> FALSE, summary |-> NewSummary(calendar_year)]
  IN  IF analysed.raised THEN [raised |-> TRUE]
      ELSE [raised |-> FALSE,
            summary |-> ClosingFromHoldings(
                          AggregateHoldings(analysed.summary, year_holdings))]

\* ---------------------------------------------------------------------------
\* Lookup operations (on the calculator's own series)
\* ---------------------------------------------------------------------------

\* ret is the result of the call in progress: the engine is single-threaded and
\* synchronous, so a call starts only after the previous result was taken
Call(op, args, value) == [op |-> op, args |-> args, value |-> value]

NoCall == Call("none", <<>>, None)

\* an exception leaves the method
TypeError == "TypeError"
ValueError == "ValueError"

\* the call of op ended with exception e
Raise(op, args, e) == [op |-> "raise", args |-> <<op>> \o args, value |-> e]

\* no sweep has returned yet
NoSweep == [op |-> "none", args |-> <<>>, value |-> None, phase |-> 0]

\* the history after a call that is not a repetition of the first sweep:
\* phase 0 is "the first sweep returned", 1 "other calls followed it",
\* 2 "it was repeated after other calls"
OtherCall ==
  first_sweep' = IF first_sweep.op # "none" /\ first_sweep.phase = 0
                 THEN [first_sweep EXCEPT !.phase = 1]
                 ELSE first_sweep

\* the caller takes the result
Return ==
  /\ ret.op # "none"
  /\ ret' = NoCall
  /\ UNCHANGED <<sbi_rates, stock_data, rsu_records, gl_records, first_sweep>>

\* a lookup that stores the value it resolved under the target date
CachingRateLookup(t) ==
  LET found == get_date_specific_exchange_rate(sbi_rates, t)
  IN  /\ ret.op = "none"
      /\ ret' = Call("get_date_specific_exchange_rate", <<t>>, found)
      /\ sbi_rates' = IF found.value # None /\ t \notin DOMAIN sbi_rates
                      THEN (t :> found.value) @@ sbi_rates
                      ELSE sbi_rates
      /\ OtherCall
      /\ UNCHANGED <<stock_data, rsu_records, gl_records>>

GetDateSpecificExchangeRate(t) ==
  /\ ret.op = "none"
  /\ ret' = Call("get_date_specific_exchange_rate", <<t>>,
                 get_date_specific_exchange_rate(sbi_rates, t))
  /\ OtherCall
  /\ UNCHANGED <<sbi_rates, stock_data, rsu_records, gl_records>>

\* a lookup that stores the price it resolved under the target date
CachingPriceLookup(t) ==
  LET found == get_date_specific_stock_price(stock_data, t)
  IN  /\ ret.op = "none"
      /\ ret' = Call("get_date_specific_stock_price", <<t>>, found)
      /\ stock_data' = IF found.value # None /\ t \notin DOMAIN stock_data
                       THEN (t :> found.value) @@ stock_data
                       ELSE stock_data
      /\ OtherCall
      /\ UNCHANGED <<sbi_rates, rsu_records, gl_records>>

GetDateSpecificStockPrice(t) ==
  /\ ret.op = "none"
  /\ ret' = Call("get_date_specific_stock_price", <<t>>,
                 get_date_specific_stock_price(stock_data, t))
  /\ OtherCall
  /\ UNCHANGED <<sbi_rates, stock_data, rsu_records, gl_records>>

\* RSUCalculator is built from the same loaded rate records (RSUService)
GetExchangeRate(t) ==
  /\ ret.op = "none"
  /\ ret' = Call("get_exchange_rate", <<t>>, get_exchange_rate(sbi_rates, t))
  /\ OtherCall
  /\ UNCHANGED <<sbi_rates, stock_data, rsu_records, gl_records>>

\* ---------------------------------------------------------------------------
\* Calculator operations on the caller's record lists
\* ---------------------------------------------------------------------------

ProcessRsuEquityHoldings(as_of_date) ==
  /\ ret.op = "none"
  /\ ret' = Call("process_rsu_equity_holdings", <<as_of_date>>,
                 IF process_rsu_equity_holdings_raises(sbi_rates, stock_data,
                                                       gl_records, as_of_date)
                 THEN TypeError
                 ELSE process_rsu_equity_holdings(sbi_rates, stock_data,
                                                  rsu_records, gl_records, as_of_date))
  /\ OtherCall
  /\ UNCHANGED <<sbi_rates, stock_data, rsu_records, gl_records>>

GetEarliestVestingDateForYear(year) ==
  /\ ret.op = "none"
  /\ ret' = IF int_raises(year)
            THEN Raise("get_earliest_vesting_date_for_year", <<year>>, ValueError)
            ELSE Call("get_earliest_vesting_date_for_year", <<year>>,
                      get_earliest_vesting_date_for_year(rsu_records, gl_records, year))
  /\ OtherCall
  /\ UNCHANGED <<sbi_rates, stock_data, rsu_records, gl_records>>

\* the first sweep is remembered; a sweep of the same year after other calls is
\* the repetition
CalculateYearBalances(year) ==
  LET balances == calculate_year_balances(sbi_rates, stock_data,
                                          rsu_records, gl_records, year)
  IN  /\ ret.op = "none"
      /\ ret' = IF int_raises(year)
                THEN Raise("calculate_year_balances", <<year>>, ValueError)
                ELSE Call("calculate_year_balances", <<year>>, balances)
      /\ IF int_raises(year) THEN OtherCall
         ELSE IF first_sweep.op = "none"
         THEN first_sweep' = [op |-> "calculate_year_balances", args |-> <<year>>,
                              value |-> balances, phase |-> 0]
         ELSE IF first_sweep.args = <<year>>
         THEN first_sweep' = IF first_sweep.phase = 1
                             THEN [first_sweep EXCEPT !.phase = 2]
                             ELSE first_sweep
         ELSE OtherCall
      /\ UNCHANGED <<sbi_rates, stock_data, rsu_records, gl_records>>

CalculateVestWiseDetails(year) ==
  /\ ret.op = "none"
  /\ ret' = Call("calculate_vest_wise_details", <<year>>,
                 calculate_vest_wise_details(sbi_rates, stock_data,
                                             rsu_records, gl_records, year))
  /\ OtherCall
  /\ UNCHANGED <<sbi_rates, stock_data, rsu_records, gl_records>>

\* calculate_fa_summary(calendar_year, equity_holdings, rsu_records, gl_records):
\* the holdings are those of an as-of date (FAService passes the year-end ones
\* unless the caller names another date) or none; the record lists are passed
\* or left absent; an exception of the holdings query ends the request
CalculateFaSummary(year, as_of_date, with_holdings, with_records) ==
  LET holdings_raise ==
        with_holdings /\ process_rsu_equity_holdings_raises(sbi_rates, stock_data,
                                                            gl_records, as_of_date)
      equity_holdings ==
        IF with_holdings /\ ~holdings_raise
        THEN process_rsu_equity_holdings(sbi_rates, stock_data,
                                         rsu_records, gl_records, as_of_date)
        ELSE <<>>
      rsu == IF with_records THEN rsu_records ELSE <<>>
      gl == IF with_records THEN gl_records ELSE <<>>
  IN  /\ ret.op = "none"
      /\ ret' = Call("calculate_fa_summary",
                     <<year, equity_holdings, with_records>>,
                     IF holdings_raise THEN [raised |-> TRUE]
                     ELSE calculate_fa_summary(sbi_rates, stock_data, year,
                                               equity_holdings, rsu, gl))
      /\ OtherCall
      /\ UNCHANGED <<sbi_rates, stock_data, rsu_records, gl_records>>

GetYearEndExchangeRate(calendar_year) ==
  /\ ret.op = "none"
  /\ ret' = Call("get_year_end_exchange_rate", <<calendar_year>>,
                 get_year_end_exchange_rate(sbi_rates, calendar_year))
  /\ OtherCall
  /\ UNCHANGED <<sbi_rates, stock_data, rsu_records, gl_records>>

GetYearEndStockPrice(calendar_year) ==
  /\ ret.op = "none"
  /\ ret' = Call("get_year_end_stock_price", <<calendar_year>>,
                 get_year_end_stock_price(stock_data, calendar_year))
  /\ OtherCall
  /\ UNCHANGED <<sbi_rates, stock_data, rsu_records, gl_records>>

CalculateShareStatistics(calendar_year) ==
  /\ ret.op = "none"
  /\ ret' = IF int_raises(calendar_year)
            THEN Raise("calculate_share_statistics", <<calendar_year>>, ValueError)
            ELSE IF calculate_share_statistics_raises(gl_records)
            THEN Raise("calculate_share_statistics", <<calendar_year>>, TypeError)
            ELSE Call("calculate_share_statistics", <<calendar_year>>,
                      calculate_share_statistics(rsu_records, gl_records, calendar_year))
  /\ OtherCall
  /\ UNCHANGED <<sbi_rates, stock_data, rsu_records, gl_records>>

\* ---------------------------------------------------------------------------
\* FAService: the loaded records and series are the calculator's
\* ---------------------------------------------------------------------------

\* results = FACalculationResults(...): one summary, total_years_analyzed=1
single_year_results(calendar_year, fa_summary) ==
  IF fa_summary.raised THEN [raised |-> TRUE]
  ELSE [raised |-> FALSE,
        results |->
          [year_summaries |-> << [year |-> calendar_year,
                                  summary |-> fa_summary.summary] >>,
           total_years_analyzed |-> 1,
           years_requiring_declaration |->
             IF declaration_required(fa_summary.summary)
             THEN <<calendar_year>> ELSE <<>>]]

\* FAService.calculate_fa_for_year(calendar_year) with as_of_date left out:
\* December 31 of the year, or today when int(calendar_year) raises; an
\* exception of the holdings query or of the summary leaves the method
calculate_fa_for_year(rates, prices, rsu, gl, calendar_year, today) ==
  LET as_of_date == IF int_raises(calendar_year) THEN today
                    ELSE Date(calendar_year, 12, 31)
  IN  IF process_rsu_equity_holdings_raises(rates, prices, gl, as_of_date)
      THEN [raised |-> TRUE]
      ELSE single_year_results(
             calendar_year,
             calculate_fa_summary(
               rates, prices, calendar_year,
               process_rsu_equity_holdings(rates, prices, rsu, gl, as_of_date),
               rsu, gl))

\* start_year = max(min_year - 1, 2022); end_year = min(max_year + 1, 2025)
multi_year_first == 2022
multi_year_last == 2025

\* try: ... year_summaries[year_str] = year_summary / except Exception: continue
year_summary_of(year_results) ==
  IF year_results.raised THEN <<>> ELSE year_results.results.year_summaries

\* the loop over the years: a year whose calculation raises is skipped
RECURSIVE MultiYearSummaries(_, _, _, _, _, _, _)
MultiYearSummaries(rates, prices, rsu, gl, year, end_year, today) ==
  IF year > end_year THEN <<>>
  ELSE year_summary_of(calculate_fa_for_year(rates, prices, rsu, gl, year, today))
         \o MultiYearSummaries(rates, prices, rsu, gl, year + 1, end_year, today)

\* FAService.calculate_fa_multi_year: total_years_analyzed and
\* years_requiring_declaration are not passed and keep their defaults
calculate_fa_multi_year(rates, prices, rsu, gl, today) ==
  LET all_dates == {rsu[i].vesting_date : i \in 1..Len(rsu)}
                     \cup ({gl[i].date_sold : i \in 1..Len(gl)} \ {None})
      start_year == Max2(YearOf(SetMin(all_dates)) - 1, multi_year_first)
      end_year == Min2(YearOf(SetMax(all_dates)) + 1, multi_year_last)
  IN  [year_summaries |->
         IF all_dates = {} THEN <<>>
         ELSE MultiYearSummaries(rates, prices, rsu, gl, start_year, end_year, today),
       total_years_analyzed |-> 0,
       years_requiring_declaration |-> <<>>]

CalculateFaForYear(calendar_year, today) ==
  /\ ret.op = "none"
  /\ ret' = Call("calculate_fa_for_year", <<calendar_year>>,
                 calculate_fa_for_year(sbi_rates, stock_data, rsu_records,
                                       gl_records, calendar_year, today))
  /\ OtherCall
  /\ UNCHANGED <<sbi_rates, stock_data, rsu_records, gl_records>>

CalculateFaMultiYear(today) ==
  /\ ret.op = "none"
  /\ ret' = Call("calculate_fa_multi_year", <<>>,
                 [raised |-> FALSE,
                  results |-> calculate_fa_multi_year(sbi_rates, stock_data,
                                                      rsu_records, gl_records, today)])
  /\ OtherCall
  /\ UNCHANGED <<sbi_rates, stock_data, rsu_records, gl_records>>

\* ---------------------------------------------------------------------------
\* Specification of the calculator: record lists drawn from two pools, series
\* drawn from a pool of series
\* ---------------------------------------------------------------------------

RECURSIVE SubsetsUpTo(_, _)
SubsetsUpTo(S, n) ==
  IF n = 0 THEN {{}}
  ELSE LET P == SubsetsUpTo(S, n - 1)
       IN  P \cup { p \cup {x} : p \in P, x \in S }

MaxLots == 3
MaxDisposals == 2

Lot(g, d, q, fmv, fx) ==
  [grant_number |-> g, vesting_date |-> d, quantity |-> q,
   fmv_usd |-> fmv, forex_rate |-> fx]

Disposal(g, acq, sold, q, pps) ==
  [grant_number |-> g, date_acquired |-> acq, date_sold |-> sold,
   quantity |-> q, proceeds_per_share |-> pps]

\* the lots of a grant are not in date order, and the grants interleave
LotPool ==
  << Lot("RU1", Date(2023, 6, 15), 3, 450, 82),
     Lot("RU2", Date(2023, 7, 15), 3, 450, 82),
     Lot("RU1", Date(2023, 1, 15), 3, 400, 82),
     Lot("RU2", Date(2023, 1, 15), 5, 400, 82),
     Lot("RU1", Date(2024, 1, 15), 2, 500, 83) >>

\* RU9 is a grant without a vesting lot
DisposalPool ==
  << Disposal("RU1", Date(2023, 1, 15), Date(2024, 6, 15), 4, 500),
     Disposal("RU2", Date(2023, 1, 15), Date(2024, 6, 15), 4, 500),
     Disposal("RU2", Date(2023, 1, 15), Date(2023, 3, 15), 5, 450),
     Disposal("RU9", Date(2023, 1, 15), Date(2024, 2, 15), 1, 450) >>

Years == {2023, 2024}

AsOfDates ==
  {Date(2023, 1, 15), Date(2023, 12, 31), Date(2024, 6, 15), Date(2024, 12, 31)}

\* the records of a pool at the indices I, in pool order
RECURSIVE PickByIndex(_, _, _)
PickByIndex(pool, I, i) ==
  IF i > Len(pool) THEN <<>>
  ELSE (IF i \in I THEN <<pool[i]>> ELSE <<>>) \o PickByIndex(pool, I, i + 1)

PoolDates ==
  {LotPool[i].vesting_date : i \in 1..Len(LotPool)}
    \cup {DisposalPool[i].date_sold : i \in 1..Len(DisposalPool)}

DenseDates ==
  {Date(2022, 12, 31)} \cup PoolDates \cup AsOfDates
    \cup {month_end(y, m) : y \in Years, m \in 1..12}

EmptySeries == [d \in {} |-> 0]

\* [rates, prices]: a single early quote each (every later date clamps to it);
\* quotes on every month-end and record date, with a higher price in
\* March-June 2024; prices with a gap of a year; no quotes at all
SeriesPool ==
  { [rates |-> [d \in {Date(2022, 12, 30)} |-> 80],
     prices |-> [d \in {Date(2022, 12, 30)} |-> 500]],
    [rates |-> [d \in DenseDates |-> 100],
     prices |-> [d \in DenseDates |->
                   IF Date(2024, 3, 1) <= d /\ d <= Date(2024, 6, 30)
                   THEN 500 ELSE 400]],
    [rates |-> [d \in DenseDates |-> 80],
     prices |-> [d \in {Date(2023, 12, 29), Date(2024, 12, 31)} |->
                   IF d = Date(2023, 12, 29) THEN 400 ELSE 500]],
    [rates |-> EmptySeries, prices |-> EmptySeries] }

Init ==
  /\ \E series \in SeriesPool :
       /\ sbi_rates = series.rates
       /\ stock_data = series.prices
  /\ \E I \in SubsetsUpTo(1..Len(LotPool), MaxLots) :
       rsu_records = PickByIndex(LotPool, I, 1)
  /\ \E I \in SubsetsUpTo(1..Len(DisposalPool), MaxDisposals) :
       gl_records = PickByIndex(DisposalPool, I, 1)
  /\ ret = NoCall
  /\ first_sweep = NoSweep

Next ==
  \/ \E t \in AsOfDates : GetDateSpecificExchangeRate(t)
  \/ \E t \in AsOfDates : GetDateSpecificStockPrice(t)
  \/ \E t \in AsOfDates : GetExchangeRate(t)
  \/ \E as_of_date \in AsOfDates : ProcessRsuEquityHoldings(as_of_date)
  \/ \E year \in Years, with_holdings \in BOOLEAN, with_records \in BOOLEAN :
       CalculateFaSummary(year, Date(year, 12, 31), with_holdings, with_records)
  \/ Return

Spec == Init /\ [][Next]_vars

\* ---------------------------------------------------------------------------
\* Specification of the lookups: every series of at most MaxSeriesLen dates
\* within a span of days
\* ---------------------------------------------------------------------------

MaxSeriesLen == 2
LookupSpan == 33

LookupBase == Date(2024, 1, 1)
LookupDays == LookupBase .. (LookupBase + LookupSpan)

\* the targets looked up: both ends of the span and its middle, so that a series
\* date lies up to LookupSpan days to one side, or series dates lie on both sides
LookupTargets ==
  {LookupBase, LookupBase + (LookupSpan \div 2), LookupBase + LookupSpan}

\* every date carries its own rate and its own price, so a result names its date
RateOn(d) == 80 + (d - LookupBase)
PriceOn(d) == 400 + (d - LookupBase)

InitLookup ==
  /\ \E D \in SubsetsUpTo(LookupDays, MaxSeriesLen) :
       /\ sbi_rates = [d \in D |-> RateOn(d)]
       /\ stock_data = [d \in D |-> PriceOn(d)]
  /\ rsu_records = <<>>
  /\ gl_records = <<>>
  /\ ret = NoCall
  /\ first_sweep = NoSweep

NextLookup ==
  \/ \E t \in LookupTargets : GetDateSpecificExchangeRate(t)
  \/ \E t \in LookupTargets : GetDateSpecificStockPrice(t)
  \/ \E t \in LookupTargets : GetExchangeRate(t)
  \/ Return

SpecLookup == InitLookup /\ [][NextLookup]_vars

\* ---------------------------------------------------------------------------
\* Specification of the year computations: every operation of the calculator,
\* on lots that vest on a month-end or in December and disposals that sell a
\* lot out before the year, within the year, or carry no sale date
\* ---------------------------------------------------------------------------

MaxYearLots == 2
MaxYearDisposals == 1

YearLotPool ==
  << Lot("RU1", Date(2024, 4, 30), 2, 500, 83),
     Lot("RU1", Date(2023, 1, 15), 3, 400, 82),
     Lot("RU3", Date(2024, 12, 15), 2, 500, 84),
     Lot("RU2", Date(2023, 1, 15), 5, 400, 82) >>

YearDisposalPool ==
  << Disposal("RU1", Date(2023, 1, 15), Date(2024, 6, 15), 4, 500),
     Disposal("RU2", Date(2023, 1, 15), Date(2023, 3, 15), 5, 450),
     Disposal("RU3", Date(2024, 12, 15), Date(2024, 12, 20), 2, 500),
     Disposal("RU1", Date(2023, 1, 15), None, 1, 500) >>

YearDenseDates ==
  {Date(2022, 12, 31)}
    \cup {YearLotPool[i].vesting_date : i \in 1..Len(YearLotPool)}
    \cup ({YearDisposalPool[i].date_sold : i \in 1..Len(YearDisposalPool)} \ {None})
    \cup {month_end(y, m) : y \in Years, m \in 1..12}

\* [rates, prices]: a single early quote each; quotes on every month-end and
\* record date, with a higher price in March-June 2024; prices with a gap of a
\* year
YearSeriesPool ==
  { [rates |-> [d \in {Date(2022, 12, 30)} |-> 80],
     prices |-> [d \in {Date(2022, 12, 30)} |-> 500]],
    [rates |-> [d \in YearDenseDates |-> 100],
     prices |-> [d \in YearDenseDates |->
                   IF Date(2024, 3, 1) <= d /\ d <= Date(2024, 6, 30)
                   THEN 500 ELSE 400]],
    [rates |-> [d \in YearDenseDates |-> 80],
     prices |-> [d \in {Date(2023, 12, 29), Date(2024, 12, 31)} |->
                   IF d = Date(2023, 12, 29) THEN 400 ELSE 500]] }

\* the dates looked up and queried between the year computations
YearLookupDates == {Date(2023, 1, 15), Date(2024, 3, 31)}

\* the as-of date the caller names for the holdings passed to a summary
SummaryAsOfDates(year) == {Date(year, 3, 31)}

InitYear ==
  /\ \E series \in YearSeriesPool :
       /\ sbi_rates = series.rates
       /\ stock_data = series.prices
  /\ \E I \in SubsetsUpTo(1..Len(YearLotPool), MaxYearLots) :
       rsu_records = PickByIndex(YearLotPool, I, 1)
  /\ \E I \in SubsetsUpTo(1..Len(YearDisposalPool), MaxYearDisposals) :
       gl_records = PickByIndex(YearDisposalPool, I, 1)
  /\ ret = NoCall
  /\ first_sweep = NoSweep

NextYear ==
  \/ \E t \in YearLookupDates : GetDateSpecificExchangeRate(t)
  \/ \E t \in YearLookupDates : GetDateSpecificStockPrice(t)
  \/ \E t \in YearLookupDates : GetExchangeRate(t)
  \/ \E as_of_date \in YearLookupDates : ProcessRsuEquityHoldings(as_of_date)
  \/ \E year \in Years : GetEarliestVestingDateForYear(year)
  \/ \E year \in Years : CalculateYearBalances(year)
  \/ \E year \in Years : CalculateVestWiseDetails(year)
  \/ \E year \in Years : \E as_of_date \in SummaryAsOfDates(year) :
       CalculateFaSummary(year, as_of_date, TRUE, TRUE)
  \/ Return

SpecYear == InitYear /\ [][NextYear]_vars


\* ---------------------------------------------------------------------------
\* Sale events: RSUCalculator.process_sale_events. The sale records are the
\* caller's gl_records; the vest_* fields of a SaleEvent, which are read from
\* the vesting events of an earlier process_vesting_events call, are left out
\* ---------------------------------------------------------------------------

\* Python's "x or y" on an Optional number: y when x is None or 0
Or(x, y) == IF x = None \/ x = 0 THEN y ELSE x

\* r.record_type == 'Sell' and r.date_sold and r.quantity and r.quantity > 0
sale_records(gl) ==
  SelectSeq(gl, LAMBDA r :
    /\ r.record_type = "Sell"
    /\ r.date_sold # None
    /\ r.quantity # None /\ r.quantity # 0
    /\ r.quantity > 0)

\* the SaleEvent of one sale record, or <<>> when the sale date has no rate
sale_event(rates, record) ==
  LET exchange_rate == get_exchange_rate(rates, record.date_sold).value
      sale_proceeds_usd == Or(record.total_proceeds, 0)
      cost_basis_usd == Or(record.adjusted_cost_basis, 0)
      capital_gain_usd == Or(record.adjusted_gain_loss,
                             sale_proceeds_usd - cost_basis_usd)
      acquisition_date == Or(record.date_acquired, record.date_sold)
      holding_days == record.date_sold - acquisition_date
  IN  IF exchange_rate = None \/ exchange_rate = 0 THEN <<>>
      ELSE << [sale_date |-> record.date_sold,
               acquisition_date |-> acquisition_date,
               grant_number |-> record.grant_number,
               quantity_sold |-> record.quantity,
               sale_proceeds_usd |-> sale_proceeds_usd,
               sale_proceeds_inr |-> sale_proceeds_usd * exchange_rate,
               cost_basis_usd |-> cost_basis_usd,
               cost_basis_inr |-> cost_basis_usd * exchange_rate,
               capital_gain_usd |-> capital_gain_usd,
               capital_gain_inr |-> capital_gain_usd * exchange_rate,
               gain_type |-> IF holding_days > 24 * 30
                             THEN "Long-term" ELSE "Short-term",
               exchange_rate_sale |-> exchange_rate] >>

RECURSIVE SaleEvents(_, _)
SaleEvents(rates, records) ==
  IF records = <<>> THEN <<>>
  ELSE sale_event(rates, Head(records)) \o SaleEvents(rates, Tail(records))

\* RSUCalculator.process_sale_events
process_sale_events(rates, gl) == SaleEvents(rates, sale_records(gl))

ProcessSaleEvents ==
  /\ ret.op = "none"
  /\ ret' = Call("process_sale_events", <<>>, process_sale_events(sbi_rates, gl_records))
  /\ OtherCall
  /\ UNCHANGED <<sbi_rates, stock_data, rsu_records, gl_records>>

MaxSales == 2

\* a G&L row: record type, grant, acquisition and sale date, quantity, total
\* proceeds, adjusted cost basis and adjusted gain/loss (each Optional)
SaleRecord(t, g, acq, sold, q, proceeds, cost, gain) ==
  [record_type |-> t, grant_number |-> g, date_acquired |-> acq,
   date_sold |-> sold, quantity |-> q, total_proceeds |-> proceeds,
   adjusted_cost_basis |-> cost, adjusted_gain_loss |-> gain]

SaleRecordPool ==
  << SaleRecord("Sell", "RU1", Date(2023, 1, 15), Date(2024, 6, 15), 4, 2000, 1600, 300),
     SaleRecord("Sell", "RU1", Date(2023, 1, 15), Date(2024, 6, 15), 4, 2000, 1600, None),
     SaleRecord("Sell", "RU1", Date(2023, 1, 15), Date(2024, 6, 15), 4, 2000, 1600, 0),
     SaleRecord("Sell", "RU2", Date(2023, 1, 15), Date(2023, 3, 15), 5, 2250, 2300, -50),
     SaleRecord("Sell", "RU2", Date(2023, 1, 15), Date(2025, 6, 15), 5, None, None, None),
     SaleRecord("Sell", "RU3", None, Date(2024, 12, 20), 2, 1000, 1000, 0),
     SaleRecord("Sell", "RU1", Date(2023, 1, 15), None, 1, 500, 400, 100),
     SaleRecord("Buy", "RU1", Date(2023, 1, 15), Date(2024, 6, 15), 4, 2000, 1600, 300) >>

\* the rate series of the RSU calculator: a quote near every sale date but
\* 2025-06-15, a single early quote (no sale date within its window), none
SaleRatePool ==
  { [d \in {Date(2023, 3, 15), Date(2024, 6, 14), Date(2024, 12, 20)} |->
       IF d = Date(2023, 3, 15) THEN 82 ELSE 83],
    [d \in {Date(2022, 12, 30)} |-> 80],
    EmptySeries }

RECURSIVE SeqsUpTo(_, _)
SeqsUpTo(S, n) ==
  IF n = 0 THEN {<<>>}
  ELSE LET P == SeqsUpTo(S, n - 1)
       IN  P \cup { Append(p, x) : p \in P, x \in S }

InitSales ==
  /\ sbi_rates \in SaleRatePool
  /\ stock_data = EmptySeries
  /\ rsu_records = <<>>
  /\ \E picks \in SeqsUpTo(1..Len(SaleRecordPool), MaxSales) :
       gl_records = [i \in 1..Len(picks) |-> SaleRecordPool[picks[i]]]
  /\ ret = NoCall
  /\ first_sweep = NoSweep

NextSales ==
  \/ ProcessSaleEvents
  \/ Return

SpecSales == InitSales /\ [][NextSales]_vars

\* ---------------------------------------------------------------------------
\* Specification of the year-taking requests: the calculator of the year
\* sweep, asked with parseable and unparseable calendar_year strings
\* ---------------------------------------------------------------------------

YearStrings == Years \cup {BadYearString}

\* Date.today() of the request
TodayDates == {Date(2025, 1, 15)}

NextService ==
  \/ \E calendar_year \in YearStrings : GetYearEndExchangeRate(calendar_year)
  \/ \E calendar_year \in YearStrings : GetYearEndStockPrice(calendar_year)
  \/ \E calendar_year \in YearStrings : CalculateShareStatistics(calendar_year)
  \/ \E calendar_year \in YearStrings : GetEarliestVestingDateForYear(calendar_year)
  \/ \E calendar_year \in YearStrings : CalculateYearBalances(calendar_year)
  \/ \E calendar_year \in YearStrings : CalculateVestWiseDetails(calendar_year)
  \/ \E calendar_year \in YearStrings, today \in TodayDates, with_records \in BOOLEAN :
       CalculateFaSummary(calendar_year,
                          IF int_raises(calendar_year) THEN today
                          ELSE Date(calendar_year, 12, 31),
                          TRUE, with_records)
  \/ \E calendar_year \in YearStrings, today \in TodayDates :
       CalculateFaForYear(calendar_year, today)
  \/ \E today \in TodayDates : CalculateFaMultiYear(today)
  \/ Return

SpecService == InitYear /\ [][NextService]_vars

\* ---------------------------------------------------------------------------
\* Lots sold in parts: the vest-wise details and the year-end holdings of lots
\* with a disposal in an earlier year, within the year or none; the record
\* lists of several statements are concatenated as they are, so a lot can be
\* listed twice
\* ---------------------------------------------------------------------------

VestLotPool ==
  << Lot("RU1", Date(2023, 1, 15), 3, 400, 82),
     Lot("RU1", Date(2024, 4, 30), 2, 500, 83),
     Lot("RU2", Date(2023, 7, 15), 5, 450, 82),
     Lot("RU1", Date(2023, 1, 15), 3, 400, 82) >>

VestDisposalPool ==
  << Disposal("RU1", Date(2023, 1, 15), Date(2023, 6, 15), 1, 450),
     Disposal("RU1", Date(2023, 1, 15), Date(2024, 6, 15), 2, 500),
     Disposal("RU2", Date(2023, 7, 15), Date(2024, 2, 15), 5, 500) >>

VestDenseDates ==
  {Date(2022, 12, 31)}
    \cup {VestLotPool[i].vesting_date : i \in 1..Len(VestLotPool)}
    \cup {VestDisposalPool[i].date_sold : i \in 1..Len(VestDisposalPool)}
    \cup {month_end(y, m) : y \in Years, m \in 1..12}

\* [rates, prices]: a single early quote each; quotes on every month-end and
\* record date, with a higher price in the second half of each year
VestSeriesPool ==
  { [rates |-> [d \in {Date(2022, 12, 30)} |-> 80],
     prices |-> [d \in {Date(2022, 12, 30)} |-> 500]],
    [rates |-> [d \in VestDenseDates |-> 100],
     prices |-> [d \in VestDenseDates |->
                   IF MonthOf(d) >= 7 THEN 500 ELSE 400]] }

InitVest ==
  /\ \E series \in VestSeriesPool :
       /\ sbi_rates = series.rates
       /\ stock_data = series.prices
  /\ \E I \in SubsetsUpTo(1..Len(VestLotPool), MaxYearLots) :
       rsu_records = PickByIndex(VestLotPool, I, 1)
  /\ \E I \in SubsetsUpTo(1..Len(VestDisposalPool), MaxYearDisposals) :
       gl_records = PickByIndex(VestDisposalPool, I, 1)
  /\ ret = NoCall
  /\ first_sweep = NoSweep

NextVest ==
  \/ \E year \in Years : ProcessRsuEquityHoldings(Date(year, 12, 31))
  \/ \E year \in Years : CalculateVestWiseDetails(year)
  \/ Return

SpecVest == InitVest /\ [][NextVest]_vars

\* ---------------------------------------------------------------------------
\* Properties of the lookups
\* ---------------------------------------------------------------------------

FaLookupOps == {"get_date_specific_exchange_rate", "get_date_specific_stock_price"}

\* the series and the window of the lookup that returned ret
SeriesOf(op) == IF op = "get_date_specific_stock_price" THEN stock_data ELSE sbi_rates

WindowOf(op) ==
  IF op = "get_date_specific_exchange_rate" THEN RateWindow
  ELSE IF op = "get_date_specific_stock_price" THEN PriceWindow
  ELSE RsuRateWindow

\* the offsets 1..W at which the series has a date before or after t
HitOffsets(series, t, W) ==
  { d \in 1..W : (t - d) \in DOMAIN series \/ (t + d) \in DOMAIN series }

\* C7: a lookup of the FA calculator returns the not-found signal only when the
\* series is empty: on every non-empty series, for every target date, a value
\* is returned.
C7_NotFoundOnlyWhenEmpty ==
  (ret.op \in FaLookupOps /\ DOMAIN SeriesOf(ret.op) # {})
    => ret.value.value # None

\* C8: the value at t when t is in the series; otherwise the value at the series
\* date with the smallest offset d in 1..W, the earlier date t-d when both t-d
\* and t+d are in the series.
C8_NearestOffsetPrevFirst ==
  ret.op \in FaLookupOps =>
    LET series == SeriesOf(ret.op)
        t == ret.args[1]
        H == HitOffsets(series, t, WindowOf(ret.op))
    IN  /\ t \in DOMAIN series => ret.value.value = series[t]
        /\ (t \notin DOMAIN series /\ H # {}) =>
             LET d == SetMin(H)
             IN  ret.value.value =
                   IF (t - d) \in DOMAIN series THEN series[t - d] ELSE series[t + d]

\* C8 witness: the target is not in the series, the nearest offset has a date on
\* both sides, and the earlier one is returned.
C8_Witness ==
  /\ ret.op \in FaLookupOps
  /\ LET series == SeriesOf(ret.op)
         t == ret.args[1]
         H == HitOffsets(series, t, WindowOf(ret.op))
     IN  /\ t \notin DOMAIN series
         /\ H # {}
         /\ (t - SetMin(H)) \in DOMAIN series
         /\ (t + SetMin(H)) \in DOMAIN series
         /\ ret.value.value = series[t - SetMin(H)]
         /\ series[t - SetMin(H)] # series[t + SetMin(H)]

\* C9: on a non-empty series a target exactly W days outside the series' range
\* resolves by the window search; a target W+1 or more days before the earliest
\* date returns the earliest value, W+1 or more days after the latest date the
\* latest value, both by the range fallback.
C9_BoundaryAndClamp ==
  (ret.op \in FaLookupOps /\ DOMAIN SeriesOf(ret.op) # {}) =>
    LET series == SeriesOf(ret.op)
        t == ret.args[1]
        W == WindowOf(ret.op)
        earliest == SetMin(DOMAIN series)
        latest == SetMax(DOMAIN series)
    IN  /\ t = earliest - W =>
             ret.value = [value |-> series[earliest], log |-> "debug_window"]
        /\ t = latest + W =>
             ret.value = [value |-> series[latest], log |-> "debug_window"]
        /\ t <= earliest - (W + 1) =>
             ret.value = [value |-> series[earliest], log |-> "warning_fallback"]
        /\ t >= latest + (W + 1) =>
             ret.value = [value |-> series[latest], log |-> "warning_fallback"]

\* C9 witness: a target W+1 days after the latest date of a series of two dates
\* got the latest value.
C9_Witness ==
  /\ ret.op \in FaLookupOps
  /\ Cardinality(DOMAIN SeriesOf(ret.op)) = 2
  /\ ret.args[1] = SetMax(DOMAIN SeriesOf(ret.op)) + WindowOf(ret.op) + 1
  /\ ret.value.value = SeriesOf(ret.op)[SetMax(DOMAIN SeriesOf(ret.op))]

\* C10: the 7-day lookup of the per-transaction calculator resolves a target
\* exactly 7 days outside the series by the window search, and clamps a target
\* 8 or more days before the earliest (after the latest) date to the earliest
\* (latest) value.
C10_RsuLookupClamps ==
  (ret.op = "get_exchange_rate" /\ DOMAIN sbi_rates # {}) =>
    LET t == ret.args[1]
        earliest == SetMin(DOMAIN sbi_rates)
        latest == SetMax(DOMAIN sbi_rates)
    IN  /\ t = earliest - RsuRateWindow => ret.value.value = sbi_rates[earliest]
        /\ t = latest + RsuRateWindow => ret.value.value = sbi_rates[latest]
        /\ t <= earliest - (RsuRateWindow + 1) => ret.value.value = sbi_rates[earliest]
        /\ t >= latest + (RsuRateWindow + 1) => ret.value.value = sbi_rates[latest]

\* ---------------------------------------------------------------------------
\* Properties of the holdings query
\* ---------------------------------------------------------------------------

\* the as-of date of a holdings query has a rate and a price
Resolves(as_of) ==
  /\ get_date_specific_exchange_rate(sbi_rates, as_of).value # None
  /\ get_date_specific_stock_price(stock_data, as_of).value # None

\* every grant number of the record lists
GrantNumbers ==
  {rsu_records[i].grant_number : i \in 1..Len(rsu_records)}
    \cup {gl_records[i].grant_number : i \in 1..Len(gl_records)}

\* the lots of a grant vested on or before the as-of date, as indices
LotsOf(g, as_of) ==
  { i \in 1..Len(rsu_records) :
      rsu_records[i].grant_number = g /\ rsu_records[i].vesting_date <= as_of }

\* the disposals of a grant sold on or before the as-of date, as indices
SalesOf(g, as_of) ==
  { i \in 1..Len(gl_records) :
      gl_records[i].grant_number = g /\ gl_records[i].date_sold <= as_of }

RECURSIVE SumQuantity(_, _)
SumQuantity(recs, I) ==
  IF I = {} THEN 0
  ELSE LET i == CHOOSE j \in I : TRUE
       IN  recs[i].quantity + SumQuantity(recs, I \ {i})

TotalVested(g, as_of) == SumQuantity(rsu_records, LotsOf(g, as_of))
TotalSold(g, as_of) == SumQuantity(gl_records, SalesOf(g, as_of))

\* the holdings of grant g in a result, as indices
HoldingsFor(holdings, g) ==
  { i \in 1..Len(holdings) : holdings[i].grant_number = g }

\* C1: with the rate and the price of the as-of date resolved, the result has
\* one holding for a grant exactly when Q = vested - sold (by grant number, both
\* up to the as-of date) is > 0, its quantity is Q, and the records dated after
\* the as-of date do not change the result.
C1_HoldingIffPositiveBalance ==
  (ret.op = "process_rsu_equity_holdings" /\ Resolves(ret.args[1])) =>
    LET as_of == ret.args[1]
    IN  /\ \A g \in GrantNumbers :
             LET Q == TotalVested(g, as_of) - TotalSold(g, as_of)
                 H == HoldingsFor(ret.value, g)
             IN  IF Q > 0
                 THEN Cardinality(H) = 1 /\ \A i \in H : ret.value[i].quantity = Q
                 ELSE H = {}
        /\ \A i \in 1..Len(ret.value) : ret.value[i].grant_number \in GrantNumbers
        /\ ret.value =
             process_rsu_equity_holdings(
               sbi_rates, stock_data,
               SelectSeq(rsu_records, LAMBDA r : r.vesting_date <= as_of),
               SelectSeq(gl_records, LAMBDA r : r.date_sold <= as_of),
               as_of)

\* C1 witness: one grant is held with some of its shares sold, and another grant
\* has vested lots and is left out because all its shares are sold.
C1_Witness ==
  /\ ret.op = "process_rsu_equity_holdings"
  /\ Resolves(ret.args[1])
  /\ \E g \in GrantNumbers :
       /\ TotalSold(g, ret.args[1]) > 0
       /\ HoldingsFor(ret.value, g) # {}
  /\ \E g \in GrantNumbers :
       /\ TotalVested(g, ret.args[1]) > 0
       /\ HoldingsFor(ret.value, g) = {}

\* the quantity of the lots of LotsOf(g, as_of) that vested before lot i
VestedBefore(g, as_of, i) ==
  SumQuantity(rsu_records,
              { j \in LotsOf(g, as_of) :
                  rsu_records[j].vesting_date < rsu_records[i].vesting_date })

\* the sum of shares[i] x the FMV of lot i over the lots I
RECURSIVE SumCost(_, _)
SumCost(shares, I) ==
  IF I = {} THEN 0
  ELSE LET i == CHOOSE j \in I : TRUE
       IN  shares[i] * rsu_records[i].fmv_usd + SumCost(shares, I \ {i})

\* the holding is allotted to the lots from the earliest on: lot i gives
\* min(what is still to allot, its quantity) shares
AllottedCost(g, as_of, holding) ==
  LET Take == [i \in LotsOf(g, as_of) |->
                Min2(rsu_records[i].quantity,
                     Max2(0, holding - VestedBefore(g, as_of, i)))]
  IN  SumCost(Take, LotsOf(g, as_of))

\* the state of the example: lots 3@400, 3@450, 2@500 of RU1, 4 shares sold
PartialSaleExample ==
  /\ {rsu_records[i] : i \in 1..Len(rsu_records)} =
       {LotPool[1], LotPool[3], LotPool[5]}
  /\ gl_records = <<DisposalPool[1]>>
  /\ ret.op = "process_rsu_equity_holdings"
  /\ ret.args[1] = Date(2024, 12, 31)
  /\ Resolves(ret.args[1])

\* C2: the cost basis of a holding is the sum, over the grant's lots in ascending
\* vesting-date order, of min(shares still to allocate, lot quantity) x lot FMV,
\* starting from the holding's quantity; lots 3@400, 3@450, 2@500 with 4 shares
\* sold give a holding of 4 shares with cost basis 1650.
C2_CostBasisFromEarliestLots ==
  /\ (ret.op = "process_rsu_equity_holdings") =>
       \A i \in 1..Len(ret.value) :
         ret.value[i].cost_basis_usd_total =
           AllottedCost(ret.value[i].grant_number, ret.args[1], ret.value[i].quantity)
  /\ PartialSaleExample =>
       /\ Len(ret.value) = 1
       /\ ret.value[1].quantity = 4
       /\ ret.value[1].cost_basis_usd_total = 1650

\* C2 witness: the example was computed.
C2_Witness == PartialSaleExample /\ Len(ret.value) = 1

\* the shares of lot i left when the grant's sold shares are taken out of the
\* earliest lots first
LeftInLot(g, as_of, i) ==
  rsu_records[i].quantity
    - Min2(rsu_records[i].quantity,
           Max2(0, TotalSold(g, as_of) - VestedBefore(g, as_of, i)))

\* the state of scenario 2: RU2 lots 5@400 and 3@450, 4 shares sold 2024-06-15
Scenario2 ==
  /\ {rsu_records[i] : i \in 1..Len(rsu_records)} = {LotPool[2], LotPool[4]}
  /\ gl_records = <<DisposalPool[2]>>
  /\ ret.op = "process_rsu_equity_holdings"
  /\ ret.args[1] = Date(2024, 12, 31)
  /\ Resolves(ret.args[1])

\* C3: the sold shares come out of the earliest lots and the cost basis of the
\* holding is the cost of the shares left in the lots; scenario 2 gives quantity
\* 4 and cost basis 1 x 400 + 3 x 450 = 1750.
C3_CostBasisOfSharesLeft ==
  /\ (ret.op = "process_rsu_equity_holdings") =>
       \A i \in 1..Len(ret.value) :
         LET g == ret.value[i].grant_number
             Left == [j \in LotsOf(g, ret.args[1]) |-> LeftInLot(g, ret.args[1], j)]
         IN  ret.value[i].cost_basis_usd_total =
               SumCost(Left, LotsOf(g, ret.args[1]))
  /\ Scenario2 =>
       /\ Len(ret.value) = 1
       /\ ret.value[1].quantity = 4
       /\ ret.value[1].cost_basis_usd_total = 1750

\* ---------------------------------------------------------------------------
\* Properties of the declaration summary
\* ---------------------------------------------------------------------------

\* calculate_fa_summary returned a summary
SummaryReturned == ret.op = "calculate_fa_summary" /\ ~ret.value.raised

\* ... and ran the balance analysis (both record lists passed and non-empty)
AnalysisRan ==
  SummaryReturned /\ ret.args[3] /\ rsu_records # <<>> /\ gl_records # <<>>

\* C4: every summary returned has peak >= opening and peak >= closing, so that
\* declaration_required is true exactly when one of opening, peak and closing
\* balance is >= the threshold.
C4_PeakAtLeastOpeningAndClosing ==
  SummaryReturned =>
    LET summary == ret.value.summary
    IN  /\ summary.peak_balance_inr >= summary.opening_balance_inr
        /\ summary.peak_balance_inr >= summary.closing_balance_inr
        /\ declaration_required(summary) <=>
             \/ summary.opening_balance_inr >= fa_declaration_threshold_inr
             \/ summary.peak_balance_inr >= fa_declaration_threshold_inr
             \/ summary.closing_balance_inr >= fa_declaration_threshold_inr

\* C5: when the balance analysis runs, the summary's opening balance, rate and
\* price are those of the sweep's entry for the opening date, the date
\* get_earliest_vesting_date_for_year returns.
C5_OpeningIsSweepEntryOfOpeningDate ==
  AnalysisRan =>
    LET year == ret.args[1]
        summary == ret.value.summary
        opening_date == get_earliest_vesting_date_for_year(rsu_records, gl_records, year)
        entry == AtKey(calculate_year_balances(sbi_rates, stock_data,
                                               rsu_records, gl_records, year),
                       strftime(opening_date))
    IN  /\ summary.opening_balance_inr = entry.vested_value_inr
        /\ summary.opening_exchange_rate = entry.exchange_rate
        /\ summary.opening_stock_price = entry.stock_price

CandidateDates(year) ==
  {get_earliest_vesting_date_for_year(rsu_records, gl_records, year)}
    \cup {Date(year, 1, 31), Date(year, 3, 1) - 1, Date(year, 3, 31),
          Date(year, 4, 30), Date(year, 5, 31), Date(year, 6, 30),
          Date(year, 7, 31), Date(year, 8, 31), Date(year, 9, 30),
          Date(year, 10, 31), Date(year, 11, 30), Date(year, 12, 31)}

\* the entries of a sweep result dated d, as indices
EntriesOn(balances, d) == { i \in 1..Len(balances) : balances[i].date = d }

\* C11: the sweep returns 13 dated entries, one for the opening date and one
\* for the last day of each month of the year; with empty record lists all 13
\* have holdings_count 0 and vested_value_inr 0.
C11_ThirteenEntries ==
  ret.op = "calculate_year_balances" =>
    /\ Len(ret.value) = 13
    /\ \A d \in CandidateDates(ret.args[1]) : EntriesOn(ret.value, d) # {}
    /\ (rsu_records = <<>> /\ gl_records = <<>>) =>
         \A i \in 1..Len(ret.value) :
           ret.value[i].holdings_count = 0 /\ ret.value[i].vested_value_inr = 0

\* the disposals of lot i (grant and acquisition date) sold before the year
SalesOfLotBefore(i, year) ==
  { j \in 1..Len(gl_records) :
      /\ gl_records[j].grant_number = rsu_records[i].grant_number
      /\ gl_records[j].date_acquired = rsu_records[i].vesting_date
      /\ gl_records[j].date_sold # None
      /\ gl_records[j].date_sold < Date(year, 1, 1) }

\* the lots with shares left at the start of the year
LotsLeftAtYearStart(year) ==
  { i \in 1..Len(rsu_records) :
      rsu_records[i].quantity
        - SumQuantity(gl_records, SalesOfLotBefore(i, year)) > 0 }

SweepOfSummary ==
  calculate_year_balances(sbi_rates, stock_data, rsu_records, gl_records, ret.args[1])

\* the largest vested_value_inr of a sweep result (0 for an empty one)
MaxVestedValue(balances) ==
  SetMax({0} \cup {balances[i].vested_value_inr : i \in 1..Len(balances)})

\* the first entry, in sweep order, with the largest value
FirstMaxIndex(balances) ==
  SetMin({ i \in 1..Len(balances) :
             balances[i].vested_value_inr = MaxVestedValue(balances) })

C14_ClosingIsDecemberEntry ==
  AnalysisRan =>
    ret.value.summary.closing_balance_inr =
      AtKey(SweepOfSummary, closing_key(ret.args[1])).vested_value_inr

\* the holdings computation of date d fails: a disposal has no sale date and
\* the comparison with the as-of date is reached
HoldingsFail(d) ==
  Resolves(d) /\ \E i \in 1..Len(gl_records) : gl_records[i].date_sold = None

\* the shares of grant g left on date d
SharesLeft(g, d) == Max2(0, TotalVested(g, d) - TotalSold(g, d))

RECURSIVE SumSharesLeft(_, _)
SumSharesLeft(G, d) ==
  IF G = {} THEN 0
  ELSE LET g == CHOOSE x \in G : TRUE
       IN  SharesLeft(g, d) + SumSharesLeft(G \ {g}, d)

\* C15: the sweep returns an entry for every candidate date; a date whose rate
\* or price is unresolved or whose holdings computation fails has
\* vested_value_inr 0, total_value_usd 0 and holdings_count 0, and every other
\* date has the count and the values of the grants with shares left on it.
C15_FailedDatesAreZeroPlaceholders ==
  ret.op = "calculate_year_balances" =>
    /\ \A d \in CandidateDates(ret.args[1]) : Cardinality(EntriesOn(ret.value, d)) = 1
    /\ \A i \in 1..Len(ret.value) :
         LET entry == ret.value[i]
             d == entry.date
         IN  IF ~Resolves(d) \/ HoldingsFail(d)
             THEN /\ entry.vested_value_inr = 0
                  /\ entry.total_value_usd = 0
                  /\ entry.holdings_count = 0
             ELSE LET price == get_date_specific_stock_price(stock_data, d).value
                      rate == get_date_specific_exchange_rate(sbi_rates, d).value
                      shares == SumSharesLeft(GrantNumbers, d)
                  IN  /\ entry.holdings_count =
                           Cardinality({g \in GrantNumbers : SharesLeft(g, d) > 0})
                      /\ entry.total_value_usd = shares * price
                      /\ entry.vested_value_inr = shares * price * rate

\* C15 witness: one date of the sweep has no price and is a zero placeholder
\* while another date of the same sweep is valued.
C15_Witness ==
  /\ ret.op = "calculate_year_balances"
  /\ \E i \in 1..Len(ret.value) :
       /\ ~Resolves(ret.value[i].date)
       /\ ret.value[i].holdings_count = 0
       /\ SumSharesLeft(GrantNumbers, ret.value[i].date) > 0
  /\ \E i \in 1..Len(ret.value) : ret.value[i].vested_value_inr > 0

\* C15 second case: the holdings computation fails on every resolved date and
\* the sweep still returns its entries.
C15_FailureCaught ==
  /\ ret.op = "calculate_year_balances"
  /\ \E i \in 1..Len(ret.value) :
       HoldingsFail(ret.value[i].date) /\ ret.value[i] = zero_entry(ret.value[i].date)

\* every disposal has a sale date
SaleDatesPresent == \A i \in 1..Len(gl_records) : gl_records[i].date_sold # None

\* C16: for non-empty record lists whose disposals all have sale dates,
\* calculate_fa_summary returns a summary and raises nothing, also when the
\* rate or the price of a sweep date, a month-end or a sale date is unresolved.
C16_MissingMarketDataNeverRaises ==
  ( /\ ret.op = "calculate_fa_summary"
    /\ ret.args[3]
    /\ rsu_records # <<>> /\ gl_records # <<>>
    /\ SaleDatesPresent ) => ~ret.value.raised

\* ---------------------------------------------------------------------------
\* Properties of the calculator's state
\* ---------------------------------------------------------------------------

\* C17: a sweep of the year of the first sweep, on the same record lists,
\* returns the result of the first sweep, whatever calls were made in between.
C17_SweepRepeatsItself ==
  ( /\ ret.op = "calculate_year_balances"
    /\ first_sweep.op = "calculate_year_balances"
    /\ ret.args = first_sweep.args ) => ret.value = first_sweep.value

\* C17 witness: the sweep was repeated after other calls, and its result has a
\* valued entry and a placeholder.
C17_Witness ==
  /\ ret.op = "calculate_year_balances"
  /\ first_sweep.phase = 2
  /\ ret.args = first_sweep.args
  /\ \E i \in 1..Len(ret.value) : ret.value[i].vested_value_inr > 0
  /\ \E i \in 1..Len(ret.value) : ret.value[i].stock_price = None

\* C18: no call changes the rate series or the price series.
C18_SeriesReadOnly ==
  [][sbi_rates' = sbi_rates /\ stock_data' = stock_data]_vars

\* C18 witness: a lookup fell back to another date or failed, and a sweep was
\* made before it.
C18_Witness ==
  /\ ret.op \in {"get_date_specific_exchange_rate", "get_date_specific_stock_price"}
  /\ ret.args[1] \notin DOMAIN SeriesOf(ret.op)
  /\ first_sweep.phase >= 1

\* ---------------------------------------------------------------------------
\* Properties of the vest-wise details
\* ---------------------------------------------------------------------------

\* calculate_vest_wise_details returned its list
DetailsReturned == ret.op = "calculate_vest_wise_details" /\ ~ret.value.raised

\* the disposals of lot i (grant and acquisition date) sold from date a to date b
SalesOfLotBetween(i, a, b) ==
  { j \in 1..Len(gl_records) :
      /\ gl_records[j].grant_number = rsu_records[i].grant_number
      /\ gl_records[j].date_acquired = rsu_records[i].vesting_date
      /\ gl_records[j].date_sold # None
      /\ a <= gl_records[j].date_sold /\ gl_records[j].date_sold <= b }

\* the shares of lot i left at the end of the year (negative when oversold)
LeftAtYearEnd(i, year) ==
  rsu_records[i].quantity
    - SumQuantity(gl_records, SalesOfLotBetween(i, 0, Date(year, 12, 31)))

\* the lots the year's report is about
LotsOfYear(year) ==
  { i \in 1..Len(rsu_records) :
      /\ rsu_records[i].vesting_date <= Date(year, 12, 31)
      /\ \/ LeftAtYearEnd(i, year) > 0
         \/ SalesOfLotBetween(i, Date(year, 1, 1), Date(year, 12, 31)) # {} }

\* the details of a result that are about lot i, as indices
DetailsOfLot(details, i) ==
  { k \in 1..Len(details) :
      /\ details[k].grant_number = rsu_records[i].grant_number
      /\ details[k].vest_date = rsu_records[i].vesting_date
      /\ details[k].initial_shares = rsu_records[i].quantity }

\* C19: the details returned are one per lot with vesting date <= December 31
\* and (shares left at year-end or a sale within the year), none for any other
\* lot, and closing_shares is max(0, quantity - sales through year-end).
C19_OneDetailPerRelevantLot ==
  DetailsReturned =>
    LET year == ret.args[1]
        details == ret.value.value
    IN  /\ Len(details) = Cardinality(LotsOfYear(year))
        /\ \A i \in 1..Len(rsu_records) :
             IF i \in LotsOfYear(year)
             THEN /\ Cardinality(DetailsOfLot(details, i)) = 1
                  /\ \A k \in DetailsOfLot(details, i) :
                       details[k].closing_shares = Max2(0, LeftAtYearEnd(i, year))
             ELSE DetailsOfLot(details, i) = {}

\* C19 witness: a lot sold out within the year has a detail with no closing
\* shares, and another lot has none.
C19_Witness ==
  /\ DetailsReturned
  /\ \E k \in 1..Len(ret.value.value) :
       ret.value.value[k].closing_shares = 0 /\ ret.value.value[k].shares_sold > 0
  /\ \E i \in 1..Len(rsu_records) : i \notin LotsOfYear(ret.args[1])

\* the 12 month-ends of a year
MonthEnds(year) ==
  {Date(year, 1, 31), Date(year, 3, 1) - 1, Date(year, 3, 31),
   Date(year, 4, 30), Date(year, 5, 31), Date(year, 6, 30),
   Date(year, 7, 31), Date(year, 8, 31), Date(year, 9, 30),
   Date(year, 10, 31), Date(year, 11, 30), Date(year, 12, 31)}

\* the month-ends of the year from the month of the vest on
ScannedMonthEnds(detail, year) ==
  { d \in MonthEnds(year) : d >= detail.vest_date }

\* the value of the lot of a detail on a month-end: the whole lot, and on
\* December 31 of a year with sales the shares left
MonthlyValue(detail, year, d) ==
  (IF detail.shares_sold > 0 /\ d = Date(year, 12, 31)
   THEN detail.closing_shares ELSE detail.initial_shares)
    * get_date_specific_stock_price(stock_data, d).value
    * get_date_specific_exchange_rate(sbi_rates, d).value

MaxMonthlyValue(detail, year) ==
  SetMax({ MonthlyValue(detail, year, d) : d \in ScannedMonthEnds(detail, year) })

FirstMaxMonthEnd(detail, year) ==
  SetMin({ d \in ScannedMonthEnds(detail, year) :
             MonthlyValue(detail, year, d) = MaxMonthlyValue(detail, year) })

\* C20 as stated: peak_value_inr is the largest monthly value over the
\* month-ends of the year from the vest's month on (from January for an earlier
\* vest) and peak_date is the first month-end attaining it, never before the
\* vest date and never outside the year.
C20_PeakDateIsFirstMaximum ==
  DetailsReturned =>
    \A k \in 1..Len(ret.value.value) :
      LET detail == ret.value.value[k]
          year == ret.args[1]
      IN  /\ detail.peak_value_inr = MaxMonthlyValue(detail, year)
          /\ detail.peak_date = FirstMaxMonthEnd(detail, year)
          /\ detail.peak_date >= detail.vest_date
          /\ YearOf(detail.peak_date) = year

\* C20 amended: peak_value_inr is the largest monthly value over those
\* month-ends; when it is positive, peak_date is the first month-end attaining
\* it, not before the vest date and within the year; when every scanned
\* month-end is valued 0, peak_date is None.
C20_PeakDateWhenPositive ==
  DetailsReturned =>
    \A k \in 1..Len(ret.value.value) :
      LET detail == ret.value.value[k]
          year == ret.args[1]
      IN  /\ detail.peak_value_inr = MaxMonthlyValue(detail, year)
          /\ IF detail.peak_value_inr > 0
             THEN /\ detail.peak_date = FirstMaxMonthEnd(detail, year)
                  /\ detail.peak_date >= detail.vest_date
                  /\ YearOf(detail.peak_date) = year
             ELSE detail.peak_date = None

\* C20 witness: one lot vested within the year has its peak on the month-end of
\* its own month, equalled by a later month-end, and a lot vested in December
\* and sold out within the year has no peak date.
C20_Witness ==
  /\ DetailsReturned
  /\ \E k \in 1..Len(ret.value.value) :
       LET detail == ret.value.value[k]
       IN  /\ detail.peak_value_inr > 0
           /\ YearOf(detail.vest_date) = ret.args[1]
           /\ MonthOf(detail.vest_date) > 1
           /\ MonthOf(detail.peak_date) = MonthOf(detail.vest_date)
           /\ \E d \in ScannedMonthEnds(detail, ret.args[1]) :
                d > detail.peak_date
                  /\ MonthlyValue(detail, ret.args[1], d) = detail.peak_value_inr
  /\ \E k \in 1..Len(ret.value.value) :
       ret.value.value[k].peak_date = None /\ ret.value.value[k].fully_sold

\* ---------------------------------------------------------------------------
\* Properties relating the summary, the holdings and the vest-wise details
\* ---------------------------------------------------------------------------

\* the holdings as of December 31 of a year
YearEndHoldings(year) ==
  process_rsu_equity_holdings(sbi_rates, stock_data, rsu_records, gl_records,
                              Date(year, 12, 31))

\* C21: when the summary is built from non-empty record lists (and the rate and
\* the price of December 31 are resolved), total_vested_shares is the sum of
\* the quantities of the holdings as of December 31 of the year.
C21_CurrentHoldingsAreYearEndHoldings ==
  (AnalysisRan /\ Resolves(Date(ret.args[1], 12, 31))) =>
    LET holdings == YearEndHoldings(ret.args[1])
    IN  ret.value.summary.total_vested_shares =
          SumSeq([i \in 1..Len(holdings) |-> holdings[i].quantity])

\* ---------------------------------------------------------------------------
\* Properties of the sale events
\* ---------------------------------------------------------------------------

\* the sale records that yield an event, in order
EventRecords ==
  SelectSeq(sale_records(gl_records), LAMBDA r :
    get_exchange_rate(sbi_rates, r.date_sold).value # None)

\* C22: the capital gain of a sale is the broker-reported adjusted gain/loss
\* whenever the record has one, a reported 0 included, and proceeds minus cost
\* basis only when it has none.
C22_BrokerGainWhenPresent ==
  ret.op = "process_sale_events" =>
    /\ Len(ret.value) = Len(EventRecords)
    /\ \A i \in 1..Len(ret.value) :
         LET record == EventRecords[i]
         IN  ret.value[i].capital_gain_usd =
               IF record.adjusted_gain_loss # None
               THEN record.adjusted_gain_loss
               ELSE ret.value[i].sale_proceeds_usd - ret.value[i].cost_basis_usd

\* ---------------------------------------------------------------------------
\* Properties of the year-taking requests
\* ---------------------------------------------------------------------------

\* C23: a calendar_year that int() rejects is rejected by every year-taking
\* operation: the year-end lookups return None, the sweep and the share
\* statistics do not return, and the vest-wise details, the summary and the
\* service's single-year calculation raise and return no summary for it.
C23_InvalidYearRejected ==
  /\ ret.op \in {"get_year_end_exchange_rate", "get_year_end_stock_price"} =>
       (int_raises(ret.args[1]) => ret.value = None)
  /\ ret.op \in {"calculate_year_balances", "calculate_share_statistics"} =>
       ~int_raises(ret.args[1])
  /\ ret.op \in {"calculate_vest_wise_details", "calculate_fa_summary",
                  "calculate_fa_for_year"} =>
       (int_raises(ret.args[1]) => ret.value.raised)

\* ---------------------------------------------------------------------------
\* Properties of disposals that match no shares
\* ---------------------------------------------------------------------------

\* the grants whose disposals up to date d exceed their vested shares, a grant
\* with disposals and no vesting lot included
AbsorbedGrants(d) ==
  {g \in GrantNumbers : TotalSold(g, d) > TotalVested(g, d)}

\* the disposal list without the disposals of those grants
WithoutAbsorbed(d) ==
  SelectSeq(gl_records, LAMBDA r : r.grant_number \notin AbsorbedGrants(d))

\* the holdings of the other grants when those disposals are absent
OtherHoldings(d) ==
  SelectSeq(process_rsu_equity_holdings(sbi_rates, stock_data, rsu_records,
                                        WithoutAbsorbed(d), d),
            LAMBDA h : h.grant_number \notin AbsorbedGrants(d))

\* C24: with disposals of a grant without vesting lot or disposals exceeding
\* the vested shares of their grant, a holdings query returns holdings of
\* positive quantity only, none for such a grant and, for every other grant,
\* the holdings it returns without those disposals; a year sweep returns and
\* each of its entries counts and values exactly those holdings.
C24_UnmatchedDisposalsAbsorbed ==
  SaleDatesPresent =>
    /\ ret.op = "process_rsu_equity_holdings" =>
         LET d == ret.args[1]
         IN  /\ \A i \in 1..Len(ret.value) :
                  /\ ret.value[i].quantity > 0
                  /\ ret.value[i].grant_number \notin AbsorbedGrants(d)
             /\ ret.value = OtherHoldings(d)
    /\ ret.op = "calculate_year_balances" =>
         \A i \in 1..Len(ret.value) :
           LET entry == ret.value[i]
               others == OtherHoldings(entry.date)
           IN  /\ entry.holdings_count = Len(others)
               /\ entry.total_value_usd =
                    SumSeq([j \in 1..Len(others) |-> others[j].market_value_usd_total])
               /\ entry.vested_value_inr =
                    SumSeq([j \in 1..Len(others) |-> others[j].market_value_inr_total])
               /\ entry.total_value_usd >= 0

\* C24 witness: a sweep entry of a date on which one grant has more shares sold
\* than vested counts the holding of another grant and nothing else.
C24_Witness ==
  /\ ret.op = "calculate_year_balances"
  /\ SaleDatesPresent
  /\ \E i \in 1..Len(ret.value) :
       /\ \E g \in AbsorbedGrants(ret.value[i].date) : TotalVested(g, ret.value[i].date) > 0
       /\ ret.value[i].holdings_count = 1
       /\ ret.value[i].total_value_usd > 0

\* C24 second case: a holdings query with a disposal of a grant that has no
\* vesting lot returns the holding of another grant.
C24_OrphanDisposal ==
  /\ ret.op = "process_rsu_equity_holdings"
  /\ SaleDatesPresent
  /\ \E g \in AbsorbedGrants(ret.args[1]) :
       \A i \in 1..Len(rsu_records) : rsu_records[i].grant_number # g
  /\ Len(ret.value) = 1

\* ---------------------------------------------------------------------------
\* Properties of the shares valued by the per-vest peak scan
\* ---------------------------------------------------------------------------

\* the shares of lot i unsold as of date d
UnsoldAt(i, d) ==
  Max2(0, rsu_records[i].quantity - SumQuantity(gl_records, SalesOfLotBetween(i, 0, d)))

\* the largest value of the unsold shares of lot i over the scanned month-ends
MaxUnsoldValue(i, detail, year) ==
  SetMax({0} \cup
         { UnsoldAt(i, d) * get_date_specific_stock_price(stock_data, d).value
                          * get_date_specific_exchange_rate(sbi_rates, d).value :
             d \in ScannedMonthEnds(detail, year) })

\* C25: the peak of a vest is the largest month-end value of the shares of the
\* vest that are unsold as of that month-end, the disposals of the requested
\* year and of earlier years both taken off.
C25_PeakValuesUnsoldShares ==
  DetailsReturned =>
    \A i \in LotsOfYear(ret.args[1]) :
      \A k \in DetailsOfLot(ret.value.value, i) :
        ret.value.value[k].peak_value_inr =
          MaxUnsoldValue(i, ret.value.value[k], ret.args[1])

\* ---------------------------------------------------------------------------
\* Properties of the vest date of a holding
\* ---------------------------------------------------------------------------

\* the lots of a grant from which the allocation of a holding took shares
ContributingLots(g, as_of, holding) ==
  { i \in LotsOf(g, as_of) :
      Min2(rsu_records[i].quantity,
           Max2(0, holding - VestedBefore(g, as_of, i))) > 0 }

\* C26: the vest_date of a holding is the latest vesting date among the lots
\* from which the cost-basis allocation of the holding took shares.
C26_VestDateOfLatestContributingLot ==
  ret.op = "process_rsu_equity_holdings" =>
    \A i \in 1..Len(ret.value) :
      LET h == ret.value[i]
          C == ContributingLots(h.grant_number, ret.args[1], h.quantity)
      IN  /\ C # {}
          /\ h.vest_date = SetMax({rsu_records[j].vesting_date : j \in C})

\* ---------------------------------------------------------------------------
\* Properties of the cost-basis walk
\* ---------------------------------------------------------------------------

\* the walk of grant g as of a date, started from the grant's holding
WalkOf(g, as_of) ==
  FifoWalk(sorted_vestings(vesting_records(rsu_records, as_of, g)), 1,
           SharesLeft(g, as_of), 0)

\* the shares the walk takes from lot i of grant g
TakenFrom(g, as_of, i) ==
  Min2(rsu_records[i].quantity,
       Max2(0, SharesLeft(g, as_of) - VestedBefore(g, as_of, i)))

RECURSIVE SumTaken(_, _, _)
SumTaken(g, as_of, I) ==
  IF I = {} THEN 0
  ELSE LET i == CHOOSE j \in I : TRUE
       IN  TakenFrom(g, as_of, i) + SumTaken(g, as_of, I \ {i})

\* C27: for every grant of a holdings query the holding is at most the sum of
\* the grant's lot quantities, the walk ends with 0 shares still to allocate,
\* the shares taken from the lots add up to the holding, and the cost basis of
\* a returned holding is the one of that walk.
C27_WalkAllocatesWholeHolding ==
  (ret.op = "process_rsu_equity_holdings" /\ Resolves(ret.args[1])) =>
    LET as_of == ret.args[1]
    IN  /\ \A g \in GrantNumbers :
             /\ SharesLeft(g, as_of) <= TotalVested(g, as_of)
             /\ WalkOf(g, as_of).remaining_shares = 0
             /\ SumTaken(g, as_of, LotsOf(g, as_of)) = SharesLeft(g, as_of)
        /\ \A i \in 1..Len(ret.value) :
             /\ ret.value[i].quantity = SharesLeft(ret.value[i].grant_number, as_of)
             /\ ret.value[i].cost_basis_usd_total =
                  WalkOf(ret.value[i].grant_number, as_of).total_cost_basis_usd

\* C27 witness: a holding smaller than the grant's vested shares is allocated
\* over two lots, the second one in part, and a third lot gives nothing.
C27_Witness ==
  /\ ret.op = "process_rsu_equity_holdings"
  /\ Resolves(ret.args[1])
  /\ \E i \in 1..Len(ret.value) :
       LET g == ret.value[i].grant_number
           L == LotsOf(g, ret.args[1])
       IN  /\ ret.value[i].quantity < TotalVested(g, ret.args[1])
           /\ \E j \in L : /\ TakenFrom(g, ret.args[1], j) > 0
                            /\ TakenFrom(g, ret.args[1], j) < rsu_records[j].quantity
           /\ \E j \in L : TakenFrom(g, ret.args[1], j) = rsu_records[j].quantity
           /\ \E j \in L : TakenFrom(g, ret.args[1], j) = 0

\* ---------------------------------------------------------------------------
\* Properties of the opening date of the sweep
\* ---------------------------------------------------------------------------

\* C28: the opening date is never later than December 31 of the requested
\* year, whatever the lots and disposals, and so every entry of the sweep is
\* dated on or before that day.
C28_OpeningDateWithinYear ==
  /\ ret.op = "get_earliest_vesting_date_for_year" =>
       ret.value <= Date(ret.args[1], 12, 31)
  /\ ret.op = "calculate_year_balances" =>
       \A i \in 1..Len(ret.value) : ret.value[i].date <= Date(ret.args[1], 12, 31)

\* ---------------------------------------------------------------------------
\* Properties relating the two disposal-matching rules
\* ---------------------------------------------------------------------------

\* every disposal is acquired on the vesting date of a lot of its grant and
\* sold on or after that date, and the disposals of each lot total at most the
\* lot's quantity
WellFormedDisposals ==
  /\ \A j \in 1..Len(gl_records) :
       /\ gl_records[j].date_sold # None
       /\ gl_records[j].date_sold >= gl_records[j].date_acquired
       /\ \E i \in 1..Len(rsu_records) :
            /\ rsu_records[i].grant_number = gl_records[j].grant_number
            /\ rsu_records[i].vesting_date = gl_records[j].date_acquired
  /\ \A i \in 1..Len(rsu_records) :
       SumQuantity(gl_records,
                   { j \in 1..Len(gl_records) :
                       /\ gl_records[j].grant_number = rsu_records[i].grant_number
                       /\ gl_records[j].date_acquired = rsu_records[i].vesting_date })
         <= rsu_records[i].quantity

\* the closing shares of the details of grant g, added up
ClosingSharesOf(details, g) ==
  SumSeq([k \in 1..Len(details) |->
            IF details[k].grant_number = g THEN details[k].closing_shares ELSE 0])

\* the quantity the holdings of a date report for grant g, 0 when none
HeldQuantity(holdings, g) ==
  SumSeq([k \in 1..Len(holdings) |->
            IF holdings[k].grant_number = g THEN holdings[k].quantity ELSE 0])

\* C29: on well-formed disposals the closing shares of the vest-wise details of
\* a grant add up to the quantity of the grant's holding as of December 31 of
\* the year.
C29_MatchingRulesAgree ==
  (DetailsReturned /\ WellFormedDisposals) =>
    \A g \in GrantNumbers :
      ClosingSharesOf(ret.value.value, g) =
        HeldQuantity(process_rsu_equity_holdings(sbi_rates, stock_data, rsu_records,
                                                 gl_records, Date(ret.args[1], 12, 31)),
                     g)

\* ---------------------------------------------------------------------------
\* Properties of the results of the service
\* ---------------------------------------------------------------------------

\* the service returned results
ResultsReturned ==
  ret.op \in {"calculate_fa_for_year", "calculate_fa_multi_year"} /\ ~ret.value.raised

\* the years of the summaries of a result whose summary requires a declaration
DeclarationYears(results) ==
  { results.year_summaries[i].year :
      i \in { j \in 1..Len(results.year_summaries) :
                declaration_required(results.year_summaries[j].summary) } }

\* the dates of the record lists
RecordDates ==
  {rsu_records[i].vesting_date : i \in 1..Len(rsu_records)}
    \cup ({gl_records[i].date_sold : i \in 1..Len(gl_records)} \ {None})

\* the years a multi-year request goes through
SweptYears ==
  IF RecordDates = {} THEN {}
  ELSE Max2(YearOf(SetMin(RecordDates)) - 1, multi_year_first)
         .. Min2(YearOf(SetMax(RecordDates)) + 1, multi_year_last)

\* C30: in the results of a single-year and of a multi-year request,
\* years_requiring_declaration holds exactly the years whose summary has
\* declaration_required true and total_years_analyzed is the number of
\* summaries; a multi-year request has the summary of every year whose
\* calculation succeeds and none for a year whose calculation fails.
C30_ResultsCountTheirSummaries ==
  ResultsReturned =>
    LET results == ret.value.results
    IN  /\ results.total_years_analyzed = Len(results.year_summaries)
        /\ { results.years_requiring_declaration[i] :
               i \in 1..Len(results.years_requiring_declaration) }
             = DeclarationYears(results)
        /\ ret.op = "calculate_fa_multi_year" =>
             { results.year_summaries[i].year : i \in 1..Len(results.year_summaries) }
               = { year \in SweptYears :
                     \E today \in TodayDates :
                       ~calculate_fa_for_year(sbi_rates, stock_data, rsu_records,
                                              gl_records, year, today).raised }

====
